---- MODULE Spec2Model ----
(***************************************************************************)
(* QueryLens: the SQL fact extractor (src/lib/sql-parser/index.ts) and its *)
(* schema validator, as a state machine over the AST forests that the      *)
(* external parser (pgsql-ast-parser) yields.                              *)
(*                                                                         *)
(* JavaScript values are rendered as follows.  An optional string that is  *)
(* absent is the sentinel UNDEF (distinct from the empty string ""); an    *)
(* absent AST child is the node NoExpr; isValid is UNDEF, "true" or        *)
(* "false".  Arrays are sequences, and the in-place mutation of the shared *)
(* accumulator arrays is rendered by operators that return the new array.  *)
(***************************************************************************)
EXTENDS Integers, Sequences, FiniteSets, TLC

VARIABLES pc, sql, schema, extracted, result, error, calls, page, request, response

vars == <<pc, sql, schema, extracted, result, error, calls, page, request, response>>

\* ------------------------------------------------------------------------
\* JavaScript primitives
\* ------------------------------------------------------------------------

UNDEF == "<undefined>"

NoExpr == [type |-> "<absent>"]

NoJoin == [type |-> "<absent>", on |-> NoExpr]

\* JS truthiness of an optional string
Truthy(s) == s # UNDEF /\ s # ""

\* a || b on optional strings
OrElse(a, b) == IF Truthy(a) THEN a ELSE b

\* !node for an optional AST child
Present(node) == node.type # "<absent>"

\* String.prototype.toLowerCase over the identifiers that occur in the inputs
toLowerCase(s) ==
  CASE s = "Users" -> "users"
    [] s = "U" -> "u"
    [] s = "ID" -> "id"
    [] s = "Total" -> "total"
    [] OTHER -> s

\* String(value) of a numeric literal
String(value) == ToString(value)

MinOf(S) == CHOOSE m \in S : \A n \in S : m <= n

\* Array.prototype.find on the tables array, by alias: index or 0
FindTableByAlias(tables, nameOrAlias) ==
  LET hits == {i \in 1..Len(tables) : tables[i].alias = nameOrAlias}
  IN IF hits = {} THEN 0 ELSE MinOf(hits)

\* Array.prototype.find on the columns array, by (name, table): index or 0
FindColumn(columns, name, table) ==
  LET hits == {i \in 1..Len(columns) :
                 columns[i].name = name /\ columns[i].table = table}
  IN IF hits = {} THEN 0 ELSE MinOf(hits)

\* ------------------------------------------------------------------------
\* Facts (src/types/index.ts)
\* ------------------------------------------------------------------------

ParsedTable(name, alias, sch) == [name |-> name, alias |-> alias, schema |-> sch]

ParsedColumn(name, table, alias, isSelected, isJoinColumn, isFilterColumn, isModified) ==
  [name |-> name, table |-> table, alias |-> alias,
   isSelected |-> isSelected, isJoinColumn |-> isJoinColumn,
   isFilterColumn |-> isFilterColumn, isModified |-> isModified,
   isValid |-> UNDEF, dataType |-> UNDEF]

\* merge of role flags into an existing Column Fact
MergeFlags(col, isSelected, isJoinColumn, isFilterColumn, isModified) ==
  [col EXCEPT !.isSelected = @ \/ isSelected,
              !.isJoinColumn = @ \/ isJoinColumn,
              !.isFilterColumn = @ \/ isFilterColumn,
              !.isModified = @ \/ isModified]

\* ------------------------------------------------------------------------
\* Helper functions of the extractor
\* ------------------------------------------------------------------------

resolveTableName(nameOrAlias, tables) ==
  IF ~Truthy(nameOrAlias) THEN UNDEF
  ELSE IF FindTableByAlias(tables, nameOrAlias) # 0
       THEN tables[FindTableByAlias(tables, nameOrAlias)].name
       ELSE nameOrAlias

normalizeJoinType(type) ==
  IF ~Truthy(type) THEN "INNER"
  ELSE IF type \in {"LEFT JOIN", "LEFT OUTER JOIN"} THEN "LEFT"
  ELSE IF type \in {"RIGHT JOIN", "RIGHT OUTER JOIN"} THEN "RIGHT"
  ELSE IF type \in {"FULL JOIN", "FULL OUTER JOIN"} THEN "FULL"
  ELSE IF type \in {"CROSS JOIN"} THEN "CROSS"
  ELSE "INNER"

\* the find-or-push of markJoinColumns, once the table name is resolved
markJoinColumnOf(columns, tableName, columnName) ==
  IF FindColumn(columns, columnName, tableName) # 0
  THEN [columns EXCEPT ![FindColumn(columns, columnName, tableName)].isJoinColumn = TRUE]
  ELSE Append(columns, ParsedColumn(columnName, tableName, UNDEF,
                                    FALSE, TRUE, FALSE, FALSE))

markJoinColumns(columns, tables, tableNameOrAlias, columnName) ==
  markJoinColumnOf(columns,
                   OrElse(resolveTableName(tableNameOrAlias, tables), tableNameOrAlias),
                   columnName)

RECURSIVE stringifyExpression(_)
stringifyExpression(expr) ==
  IF ~Present(expr) THEN ""
  ELSE IF expr.type = "ref"
       THEN IF expr.table # UNDEF
            THEN expr.table \o "." \o expr.name
            ELSE expr.name
  ELSE IF expr.type \in {"integer", "numeric"} THEN String(expr.value)
  ELSE IF expr.type = "string" THEN "'" \o expr.value \o "'"
  ELSE IF expr.type = "binary"
       THEN stringifyExpression(expr.left) \o " " \o expr.op \o " "
              \o stringifyExpression(expr.right)
  ELSE ""

\* ------------------------------------------------------------------------
\* Expression walkers: each returns the columns array after the walk
\* ------------------------------------------------------------------------

RECURSIVE extractColumnReference(_, _, _, _, _, _, _)
RECURSIVE extractFunctionArgs(_, _, _, _)
RECURSIVE extractCaseWhens(_, _, _, _)

extractFunctionColumns(func, columns, tables) ==
  extractFunctionArgs(func.args, 1, columns, tables)

extractFunctionArgs(args, i, columns, tables) ==
  IF i > Len(args) THEN columns
  ELSE extractFunctionArgs(args, i + 1,
         extractColumnReference(args[i], columns, tables, TRUE, FALSE, FALSE, FALSE),
         tables)

\* the second half of extractBinaryColumns: the right operand
extractBinaryRight(expr, columns, tables) ==
  IF Present(expr.right)
  THEN extractColumnReference(expr.right, columns, tables, TRUE, FALSE, FALSE, FALSE)
  ELSE columns

extractBinaryColumns(expr, columns, tables) ==
  extractBinaryRight(expr,
    IF Present(expr.left)
    THEN extractColumnReference(expr.left, columns, tables, TRUE, FALSE, FALSE, FALSE)
    ELSE columns,
    tables)

\* the find-or-push of extractColumnReference, once the table is resolved
pushColumnReference(columns, name, tableName, isSelected, isJoinColumn, isFilterColumn, isModified) ==
  IF FindColumn(columns, name, tableName) # 0
  THEN [columns EXCEPT ![FindColumn(columns, name, tableName)] =
          MergeFlags(@, isSelected, isJoinColumn, isFilterColumn, isModified)]
  ELSE Append(columns, ParsedColumn(name, tableName, UNDEF,
                isSelected, isJoinColumn, isFilterColumn, isModified))

extractColumnReference(expr, columns, tables, isSelected, isJoinColumn, isFilterColumn, isModified) ==
  IF ~Present(expr) THEN columns
  ELSE IF expr.type = "ref" THEN
    pushColumnReference(columns, expr.name, resolveTableName(expr.table, tables),
                        isSelected, isJoinColumn, isFilterColumn, isModified)
  ELSE IF expr.type = "binary" THEN extractBinaryColumns(expr, columns, tables)
  ELSE IF expr.type = "call" THEN extractFunctionColumns(expr, columns, tables)
  ELSE IF expr.type = "cast" THEN
    extractColumnReference(expr.operand, columns, tables,
                           isSelected, isJoinColumn, isFilterColumn, isModified)
  ELSE columns

extractCaseWhens(whens, i, columns, tables) ==
  IF i > Len(whens) THEN columns
  ELSE extractCaseWhens(whens, i + 1,
         extractColumnReference(whens[i].value,
           extractColumnReference(whens[i].when, columns, tables,
                                  TRUE, FALSE, FALSE, FALSE),
           tables, TRUE, FALSE, FALSE, FALSE),
         tables)

extractCaseColumns(caseExpr, columns, tables) ==
  extractColumnReference(caseExpr.else,
                         extractCaseWhens(caseExpr.whens, 1, columns, tables),
                         tables, TRUE, FALSE, FALSE, FALSE)

extractSelectColumn(col, columns, tables) ==
  IF col.expr.type = "ref" THEN
    Append(columns, ParsedColumn(col.expr.name,
                                 resolveTableName(col.expr.table, tables),
                                 col.alias, TRUE, FALSE, FALSE, FALSE))
  ELSE IF col.expr.type = "call" THEN extractFunctionColumns(col.expr, columns, tables)
  ELSE IF col.expr.type = "binary" THEN extractBinaryColumns(col.expr, columns, tables)
  ELSE IF col.expr.type = "cast" THEN
    IF col.expr.operand.type = "ref"
    THEN Append(columns, ParsedColumn(col.expr.operand.name,
                                      resolveTableName(col.expr.operand.table, tables),
                                      col.alias, TRUE, FALSE, FALSE, FALSE))
    ELSE columns
  ELSE IF col.expr.type = "case" THEN extractCaseColumns(col.expr, columns, tables)
  ELSE columns

\* ------------------------------------------------------------------------
\* WHERE walker: returns [conditions, columns]
\* ------------------------------------------------------------------------

\* the conditions.push of extractBinaryCondition
pushCondition(conditions, leftStr, op, rightStr) ==
  IF leftStr # "" /\ rightStr # "" /\ Truthy(op)
  THEN Append(conditions, leftStr \o " " \o op \o " " \o rightStr)
  ELSE conditions

\* the right operand of extractBinaryCondition
extractBinaryConditionRight(binary, columns, tables, isJoinCondition) ==
  IF Present(binary.right)
  THEN extractColumnReference(binary.right, columns, tables,
                              FALSE, isJoinCondition, ~isJoinCondition, FALSE)
  ELSE columns

extractBinaryCondition(binary, conditions, columns, tables, isJoinCondition) ==
  [conditions |->
     pushCondition(conditions,
                   IF Present(binary.left) THEN stringifyExpression(binary.left) ELSE "",
                   binary.op,
                   IF Present(binary.right) THEN stringifyExpression(binary.right) ELSE ""),
   columns |->
     extractBinaryConditionRight(binary,
       IF Present(binary.left)
       THEN extractColumnReference(binary.left, columns, tables,
                                   FALSE, isJoinCondition, ~isJoinCondition, FALSE)
       ELSE columns,
       tables, isJoinCondition)]

RECURSIVE extractWhereConditions(_, _, _, _, _)
RECURSIVE extractWhereRight(_, _, _, _)

\* the right operand of an AND/OR, walked after the left one
extractWhereRight(where, l, tables, isJoinCondition) ==
  IF Present(where.right)
  THEN extractWhereConditions(where.right, l.conditions, l.columns,
                              tables, isJoinCondition)
  ELSE l

extractWhereConditions(where, conditions, columns, tables, isJoinCondition) ==
  IF ~Present(where) THEN [conditions |-> conditions, columns |-> columns]
  ELSE IF where.type = "binary" THEN
    IF where.op \in {"AND", "OR"}
    THEN extractWhereRight(where,
           IF Present(where.left)
           THEN extractWhereConditions(where.left, conditions, columns,
                                       tables, isJoinCondition)
           ELSE [conditions |-> conditions, columns |-> columns],
           tables, isJoinCondition)
    ELSE extractBinaryCondition(where, conditions, columns, tables, isJoinCondition)
  ELSE IF where.type = "unary" THEN
    extractWhereConditions(where.operand, conditions, columns, tables, isJoinCondition)
  ELSE IF where.type = "ternary" THEN
    [conditions |-> conditions,
     columns |-> extractColumnReference(where.value, columns, tables,
                                        FALSE, isJoinCondition, TRUE, FALSE)]
  ELSE IF where.type = "ref" THEN
    [conditions |-> conditions,
     columns |-> extractColumnReference(where, columns, tables,
                                        FALSE, isJoinCondition, TRUE, FALSE)]
  ELSE IF where.type = "call" THEN
    [conditions |-> conditions,
     columns |-> extractFunctionColumns(where, columns, tables)]
  ELSE [conditions |-> conditions, columns |-> columns]

\* ------------------------------------------------------------------------
\* FROM clause
\* ------------------------------------------------------------------------

\* `${x}` of an optional string inside a template literal
Template(s) == IF s = UNDEF THEN "undefined" ELSE s

\* extractTableName on a FROM item, whose name is a qualified-name object
extractTableName(node) == node.name.name

\* extractTableName on a table reference, whose name is a string
extractTableNameOfRef(node) == node.name

ParsedJoin(type, leftTable, rightTable, leftColumn, rightColumn, condition) ==
  [type |-> type, leftTable |-> leftTable, rightTable |-> rightTable,
   leftColumn |-> leftColumn, rightColumn |-> rightColumn, condition |-> condition]

\* the Join Fact of extractJoinInfo, once both sides are resolved
joinOf(type, left, right, leftTable, rightTable) ==
  ParsedJoin(normalizeJoinType(type),
             OrElse(leftTable, ""), OrElse(rightTable, ""),
             OrElse(left.name, ""), OrElse(right.name, ""),
             Template(OrElse(leftTable, left.table)) \o "." \o left.name \o " = "
               \o Template(OrElse(rightTable, right.table)) \o "." \o right.name)

\* extractJoinInfo without the test of the operator
extractJoinInfoOfAnyComparison(tableItem, tables) ==
  IF ~Present(tableItem.join) \/ ~Present(tableItem.join.on) THEN <<>>
  ELSE IF tableItem.join.on.type = "binary"
          /\ tableItem.join.on.left.type = "ref"
          /\ tableItem.join.on.right.type = "ref"
  THEN << joinOf(tableItem.join.type, tableItem.join.on.left, tableItem.join.on.right,
                 resolveTableName(tableItem.join.on.left.table, tables),
                 resolveTableName(tableItem.join.on.right.table, tables)) >>
  ELSE <<>>

\* returns <<>> for null, <<join>> otherwise
extractJoinInfo(tableItem, tables) ==
  IF ~Present(tableItem.join) \/ ~Present(tableItem.join.on) THEN <<>>
  ELSE IF tableItem.join.on.type = "binary" /\ tableItem.join.on.op = "="
          /\ tableItem.join.on.left.type = "ref"
          /\ tableItem.join.on.right.type = "ref"
  THEN << joinOf(tableItem.join.type, tableItem.join.on.left, tableItem.join.on.right,
                 resolveTableName(tableItem.join.on.left.table, tables),
                 resolveTableName(tableItem.join.on.right.table, tables)) >>
  ELSE <<>>

\* the lists of the previous call, as if they were kept at module level
AccLeftByLastCall ==
  IF extracted = [type |-> "<none>"]
  THEN [tables |-> <<>>, columns |-> <<>>, joins |-> <<>>, whereConditions |-> <<>>,
        ctes |-> <<>>, subqueries |-> <<>>, queryType |-> "SELECT"]
  ELSE [tables |-> extracted.tables, columns |-> extracted.columns,
        joins |-> extracted.joins, whereConditions |-> extracted.whereConditions,
        ctes |-> extracted.ctes, subqueries |-> extracted.subqueries,
        queryType |-> "SELECT"]

EmptyAcc ==
  [tables |-> <<>>, columns |-> <<>>, joins |-> <<>>, whereConditions |-> <<>>,
   ctes |-> <<>>, subqueries |-> <<>>, queryType |-> "SELECT"]

RECURSIVE processStatements(_, _)

\* the join part of extractFromClause: push the Join Fact, mark its two
\* columns, walk the ON predicate
pushJoin(fromItem, acc, tables, joinInfo) ==
  IF joinInfo = <<>> THEN [acc EXCEPT !.tables = tables]
  ELSE [acc EXCEPT
          !.tables = tables,
          !.joins = Append(@, joinInfo[1]),
          !.columns =
            extractWhereConditions(
              fromItem.join.on, <<>>,
              markJoinColumns(
                markJoinColumns(@, tables, joinInfo[1].leftTable, joinInfo[1].leftColumn),
                tables, joinInfo[1].rightTable, joinInfo[1].rightColumn),
              tables, TRUE).columns]

\* the table part of extractFromClause, after the Table Fact is pushed
extractFromTable(fromItem, acc, tables) ==
  pushJoin(fromItem, acc, tables,
           IF Present(fromItem.join) THEN extractJoinInfo(fromItem, tables) ELSE <<>>)

\* the subquery part of extractFromClause, after the subquery is processed
pushSubquery(fromItem, acc, subquery) ==
  IF Truthy(fromItem.alias)
  THEN [acc EXCEPT !.subqueries = Append(@, subquery),
                   !.tables = Append(@, ParsedTable(fromItem.alias, fromItem.alias, UNDEF))]
  ELSE [acc EXCEPT !.subqueries = Append(@, subquery)]

extractFromClause(fromItem, acc, rawSql) ==
  IF fromItem.type = "table" THEN
    IF ~Truthy(extractTableName(fromItem)) THEN acc
    ELSE extractFromTable(fromItem, acc,
           Append(acc.tables, ParsedTable(extractTableName(fromItem),
                                          fromItem.name.alias, fromItem.name.schema)))
  ELSE IF fromItem.type = "statement" THEN
    pushSubquery(fromItem, acc, processStatements(<<fromItem>>, rawSql))
  ELSE acc

RECURSIVE extractFromItems(_, _, _, _)
extractFromItems(from, i, acc, rawSql) ==
  IF i > Len(from) THEN acc
  ELSE extractFromItems(from, i + 1, extractFromClause(from[i], acc, rawSql), rawSql)

RECURSIVE extractSelectColumns(_, _, _, _)
extractSelectColumns(cols, i, columns, tables) ==
  IF i > Len(cols) THEN columns
  ELSE extractSelectColumns(cols, i + 1,
                            extractSelectColumn(cols[i], columns, tables), tables)

RECURSIVE extractGroupBy(_, _, _, _)
extractGroupBy(groupBy, i, columns, tables) ==
  IF i > Len(groupBy) THEN columns
  ELSE extractGroupBy(groupBy, i + 1,
         extractColumnReference(groupBy[i], columns, tables, FALSE, FALSE, TRUE, FALSE),
         tables)

RECURSIVE extractOrderBy(_, _, _, _)
extractOrderBy(orderBy, i, columns, tables) ==
  IF i > Len(orderBy) THEN columns
  ELSE extractOrderBy(orderBy, i + 1,
         extractColumnReference(orderBy[i].by, columns, tables, FALSE, FALSE, TRUE, FALSE),
         tables)

\* ------------------------------------------------------------------------
\* Statements
\* ------------------------------------------------------------------------

\* what a WHERE walk leaves in the accumulator
withWhere(acc, walked) ==
  [acc EXCEPT !.columns = walked.columns, !.whereConditions = walked.conditions]

\* the WHERE step shared by UPDATE and DELETE
extractWhereOf(stmt, acc) ==
  withWhere(acc, extractWhereConditions(stmt.where, acc.whereConditions, acc.columns,
                                        acc.tables, FALSE))

\* extractFromSelect after WHERE: GROUP BY, then ORDER BY
extractSelectGrouping(stmt, acc) ==
  [acc EXCEPT !.columns =
     extractOrderBy(stmt.orderBy, 1,
                    extractGroupBy(stmt.groupBy, 1, @, acc.tables),
                    acc.tables)]

\* extractFromSelect after FROM: select list, WHERE, GROUP BY, ORDER BY
extractSelectClauses(stmt, acc) ==
  extractSelectGrouping(stmt,
    withWhere(acc,
      extractWhereConditions(stmt.where, acc.whereConditions,
        extractSelectColumns(stmt.columns, 1, acc.columns, acc.tables),
        acc.tables, FALSE)))

extractFromSelect(stmt, acc, rawSql) ==
  extractSelectClauses(stmt, extractFromItems(stmt.from, 1, acc, rawSql))

RECURSIVE pushModified(_, _, _, _)
pushModified(names, i, columns, tableName) ==
  IF i > Len(names) THEN columns
  ELSE pushModified(names, i + 1,
         IF Truthy(names[i])
         THEN Append(columns, ParsedColumn(names[i], tableName, UNDEF,
                                           FALSE, FALSE, FALSE, TRUE))
         ELSE columns,
         tableName)

\* extractFromInsert pushing its columns as selected columns too
extractFromInsertMarkingSelected(stmt, acc) ==
  IF ~Truthy(extractTableNameOfRef(stmt.into)) THEN acc
  ELSE [acc EXCEPT
          !.tables = Append(@, ParsedTable(extractTableNameOfRef(stmt.into), UNDEF,
                                           stmt.into.schema)),
          !.columns = [i \in 1..Len(stmt.columns) |->
                         ParsedColumn(stmt.columns[i], extractTableNameOfRef(stmt.into),
                                      UNDEF, TRUE, FALSE, FALSE, TRUE)]]

extractFromInsert(stmt, acc) ==
  IF ~Truthy(extractTableNameOfRef(stmt.into)) THEN acc
  ELSE [acc EXCEPT
          !.tables = Append(@, ParsedTable(extractTableNameOfRef(stmt.into), UNDEF,
                                           stmt.into.schema)),
          !.columns = pushModified(stmt.columns, 1, @, extractTableNameOfRef(stmt.into))]

extractFromUpdate(stmt, acc) ==
  extractWhereOf(stmt,
    IF ~Truthy(extractTableNameOfRef(stmt.table)) THEN acc
    ELSE [acc EXCEPT
            !.tables = Append(@, ParsedTable(extractTableNameOfRef(stmt.table),
                                             stmt.table.alias, stmt.table.schema)),
            !.columns = pushModified([i \in 1..Len(stmt.sets) |-> stmt.sets[i].column],
                                     1, @, extractTableNameOfRef(stmt.table))])

extractFromDelete(stmt, acc) ==
  extractWhereOf(stmt,
    IF ~Truthy(extractTableNameOfRef(stmt.from)) THEN acc
    ELSE [acc EXCEPT
            !.tables = Append(@, ParsedTable(extractTableNameOfRef(stmt.from),
                                             stmt.from.alias, stmt.from.schema))])

\* the CTE loop without its virtual table
pushCTEWithoutTable(cte, acc, cteParsed) ==
  [acc EXCEPT !.ctes = Append(@, cteParsed)]

\* the two pushes of the CTE loop, after the body is processed
pushCTE(cte, acc, cteParsed) ==
  IF Truthy(cte.alias)
  THEN [acc EXCEPT !.ctes = Append(@, cteParsed),
                   !.tables = Append(@, ParsedTable(cte.alias, cte.alias, UNDEF))]
  ELSE [acc EXCEPT !.ctes = Append(@, cteParsed)]

RECURSIVE extractCTEBindings(_, _, _, _)
extractCTEBindings(bind, i, acc, rawSql) ==
  IF i > Len(bind) THEN acc
  ELSE extractCTEBindings(bind, i + 1,
         IF ~Present(bind[i].statement) THEN acc
         ELSE pushCTE(bind[i], acc, processStatements(<<bind[i].statement>>, rawSql)),
         rawSql)

\* the main query after WITH: walked with a fresh subqueries array, which
\* is dropped
extractCTEMain(stmt, acc, rawSql) ==
  IF Present(stmt.in)
  THEN [extractFromSelect(stmt.in, [acc EXCEPT !.subqueries = <<>>], rawSql)
          EXCEPT !.subqueries = acc.subqueries]
  ELSE acc

RECURSIVE tablesOfAll(_, _)
tablesOfAll(facts, i) ==
  IF i > Len(facts) THEN <<>> ELSE facts[i].tables \o tablesOfAll(facts, i + 1)

RECURSIVE columnsOfAll(_, _)
columnsOfAll(facts, i) ==
  IF i > Len(facts) THEN <<>> ELSE facts[i].columns \o columnsOfAll(facts, i + 1)

withBodies(acc) ==
  [acc EXCEPT !.tables = @ \o tablesOfAll(acc.ctes, 1),
              !.columns = @ \o columnsOfAll(acc.ctes, 1)]

\* extractFromCTE as it would be if the facts of the CTE bodies were also
\* pushed into the enclosing tables and columns
extractFromCTEMergingBodies(stmt, acc, rawSql) ==
  extractCTEMain(stmt, withBodies(extractCTEBindings(stmt.bind, 1, acc, rawSql)), rawSql)

extractFromCTE(stmt, acc, rawSql) ==
  extractCTEMain(stmt, extractCTEBindings(stmt.bind, 1, acc, rawSql), rawSql)

RECURSIVE extractFromUnion(_, _, _)
RECURSIVE extractUnionSide(_, _, _)

\* one side of a UNION: a SELECT, or a nested UNION
extractUnionSide(side, acc, rawSql) ==
  IF side.type = "select" THEN extractFromSelect(side, acc, rawSql)
  ELSE IF side.type \in {"union", "union all"} THEN extractFromUnion(side, acc, rawSql)
  ELSE acc

\* extractFromUnion walking the right side before the left
extractFromUnionRightFirst(stmt, acc, rawSql) ==
  extractUnionSide(stmt.left, extractUnionSide(stmt.right, acc, rawSql), rawSql)

extractFromUnion(stmt, acc, rawSql) ==
  extractUnionSide(stmt.right, extractUnionSide(stmt.left, acc, rawSql), rawSql)

\* the Map key of deduplicateColumns
DedupKey(col) == OrElse(col.table, "") \o "." \o col.name

\* the entries of the Map that have the column's key
DedupHits(out, col) == {k \in 1..Len(out) : DedupKey(out[k]) = DedupKey(col)}

\* the merge into an existing entry: flags OR-ed, first non-empty alias kept
mergeDuplicate(existing, col) ==
  [MergeFlags(existing, col.isSelected, col.isJoinColumn,
              col.isFilterColumn, col.isModified)
     EXCEPT !.alias = IF ~Truthy(@) /\ Truthy(col.alias) THEN col.alias ELSE @]

RECURSIVE deduplicateFrom(_, _, _)
deduplicateFrom(columns, i, out) ==
  IF i > Len(columns) THEN out
  ELSE deduplicateFrom(columns, i + 1,
         IF DedupHits(out, columns[i]) # {}
         THEN [out EXCEPT ![MinOf(DedupHits(out, columns[i]))] =
                 mergeDuplicate(@, columns[i])]
         ELSE Append(out, columns[i]))

deduplicateColumns(columns) == deduplicateFrom(columns, 1, <<>>)

\* the switch of processStatements for one statement
dispatchStatement(stmt, acc, rawSql) ==
  IF ~Truthy(stmt.type) THEN acc
  ELSE IF stmt.type = "select" THEN
    extractFromSelect(stmt, [acc EXCEPT !.queryType = "SELECT"], rawSql)
  ELSE IF stmt.type = "insert" THEN
    extractFromInsert(stmt, [acc EXCEPT !.queryType = "INSERT"])
  ELSE IF stmt.type = "update" THEN
    extractFromUpdate(stmt, [acc EXCEPT !.queryType = "UPDATE"])
  ELSE IF stmt.type = "delete" THEN
    extractFromDelete(stmt, [acc EXCEPT !.queryType = "DELETE"])
  ELSE IF stmt.type = "with" THEN
    extractFromCTE(stmt, [acc EXCEPT !.queryType = "CTE"], rawSql)
  ELSE IF stmt.type \in {"union", "union all"} THEN
    extractFromUnion(stmt, [acc EXCEPT !.queryType = "SELECT"], rawSql)
  ELSE acc

RECURSIVE dispatchStatements(_, _, _, _)
dispatchStatements(statements, i, acc, rawSql) ==
  IF i > Len(statements) THEN acc
  ELSE dispatchStatements(statements, i + 1,
                          dispatchStatement(statements[i], acc, rawSql), rawSql)

\* the Query Fact returned by processStatements
queryOf(acc, rawSql) ==
  [type |-> acc.queryType,
   tables |-> acc.tables,
   columns |-> deduplicateColumns(acc.columns),
   joins |-> acc.joins,
   whereConditions |-> acc.whereConditions,
   ctes |-> acc.ctes,
   subqueries |-> acc.subqueries,
   rawSql |-> rawSql]

processStatements(statements, rawSql) ==
  queryOf(dispatchStatements(statements, 1, EmptyAcc, rawSql), rawSql)

\* ------------------------------------------------------------------------
\* Schema validation
\* ------------------------------------------------------------------------

NoSchema == [kind |-> "undefined"]

EmptyMap == [k \in {} |-> ""]

\* Map.prototype.set
MapSet(m, k, v) == [x \in (DOMAIN m) \cup {k} |-> IF x = k THEN v ELSE m[x]]

\* the alias -> real table name map built at the start of validation
RECURSIVE aliasToTableFrom(_, _, _)
aliasToTableFrom(tables, i, m) ==
  IF i > Len(tables) THEN m
  ELSE aliasToTableFrom(tables, i + 1,
         MapSet(IF Truthy(tables[i].alias)
                THEN MapSet(m, toLowerCase(tables[i].alias), toLowerCase(tables[i].name))
                ELSE m,
                toLowerCase(tables[i].name), toLowerCase(tables[i].name)))

aliasToTable(tables) == aliasToTableFrom(tables, 1, EmptyMap)

RECURSIVE findTablesFrom(_, _, _, _, _)
findTablesFrom(sch, queryTables, columnLower, i, matches) ==
  IF i > Len(queryTables) THEN matches
  ELSE findTablesFrom(sch, queryTables, columnLower, i + 1,
         IF toLowerCase(queryTables[i].name) \in DOMAIN sch.tables
            /\ columnLower \in DOMAIN sch.tables[toLowerCase(queryTables[i].name)]
         THEN Append(matches, queryTables[i].name)
         ELSE matches)

findTablesWithColumn(sch, queryTables, columnName) ==
  findTablesFrom(sch, queryTables, toLowerCase(columnName), 1, <<>>)

lookupColumnInSchema(sch, tableName, columnName) ==
  IF toLowerCase(tableName) \notin DOMAIN sch.tables THEN UNDEF
  ELSE IF toLowerCase(columnName) \notin DOMAIN sch.tables[toLowerCase(tableName)]
  THEN UNDEF
  ELSE sch.tables[toLowerCase(tableName)][toLowerCase(columnName)]

\* aliasToTable.get(lower) || lower
resolvedTable(aliasMap, lower) ==
  IF lower \in DOMAIN aliasMap /\ Truthy(aliasMap[lower]) THEN aliasMap[lower] ELSE lower

\* the column's type in a table of the schema, or undefined
typeIn(tableSchema, columnLower) ==
  IF columnLower \in DOMAIN tableSchema THEN tableSchema[columnLower] ELSE UNDEF

\* the single-match case of an unqualified column: adopt the table, then
\* look the column up in it
adoptTable(column, sch, tableName) ==
  IF Truthy(lookupColumnInSchema(sch, tableName, column.name))
  THEN [column EXCEPT !.table = tableName,
                      !.dataType = lookupColumnInSchema(sch, tableName, column.name),
                      !.isValid = "true"]
  ELSE [column EXCEPT !.table = tableName]

\* validateUnqualified as it would be if the data type of a column found in
\* one table were not recorded
validateUnqualifiedDroppingDataType(column, sch, matchingTables) ==
  IF Len(matchingTables) = 1 THEN [column EXCEPT !.table = matchingTables[1],
                                                  !.isValid = "true"]
  ELSE IF Len(matchingTables) > 1 THEN [column EXCEPT !.isValid = "true"]
  ELSE [column EXCEPT !.isValid = "false"]

\* validation of a Column Fact that has no table, given the query's tables
\* that have a column of its name
validateUnqualified(column, sch, matchingTables) ==
  IF Len(matchingTables) = 1 THEN adoptTable(column, sch, matchingTables[1])
  ELSE IF Len(matchingTables) > 1 THEN [column EXCEPT !.isValid = "true"]
  ELSE [column EXCEPT !.isValid = "false"]

\* validateQualified as it would be if a table missing from the schema were
\* judged instead of skipped
validateQualifiedJudgingUnknownTables(column, sch, tableName) ==
  IF tableName \notin DOMAIN sch.tables THEN [column EXCEPT !.isValid = "false"]
  ELSE IF Truthy(typeIn(sch.tables[tableName], toLowerCase(column.name)))
  THEN [column EXCEPT !.isValid = "true",
                      !.dataType = typeIn(sch.tables[tableName], toLowerCase(column.name))]
  ELSE [column EXCEPT !.isValid = "false"]

\* validation of a Column Fact that has a table, given its resolved,
\* lower-cased table name
validateQualified(column, sch, tableName) ==
  IF tableName \notin DOMAIN sch.tables THEN column
  ELSE IF Truthy(typeIn(sch.tables[tableName], toLowerCase(column.name)))
  THEN [column EXCEPT !.isValid = "true",
                      !.dataType = typeIn(sch.tables[tableName], toLowerCase(column.name))]
  ELSE [column EXCEPT !.isValid = "false"]

\* the body of the validation loop for one Column Fact
validateColumn(column, sch, tables, aliasMap) ==
  IF ~Truthy(column.table)
  THEN validateUnqualified(column, sch, findTablesWithColumn(sch, tables, column.name))
  ELSE validateQualified(column, sch, resolvedTable(aliasMap, toLowerCase(column.table)))

\* validation as it would be if the Column Facts judged invalid were
\* removed from the Query Fact
validateColumnsAgainstSchemaDroppingInvalid(res, sch) ==
  [res EXCEPT !.columns =
     SelectSeq([i \in 1..Len(res.columns) |->
                  validateColumn(res.columns[i], sch, res.tables, aliasToTable(res.tables))],
               LAMBDA c : c.isValid # "false")]

validateColumnsAgainstSchema(res, sch) ==
  [res EXCEPT !.columns =
     [i \in 1..Len(res.columns) |->
        validateColumn(res.columns[i], sch, res.tables, aliasToTable(res.tables))]]

\* ------------------------------------------------------------------------
\* AST nodes as the parser builds them
\* ------------------------------------------------------------------------

Ref(table, name) == [type |-> "ref", table |-> table, name |-> name]

Integer(value) == [type |-> "integer", value |-> value]

StringLit(value) == [type |-> "string", value |-> value]

BooleanLit(value) == [type |-> "boolean", value |-> value]

Binary(left, op, right) == [type |-> "binary", left |-> left, op |-> op, right |-> right]

Unary(op, operand) == [type |-> "unary", op |-> op, operand |-> operand]

Ternary(value, op, lo, hi) ==
  [type |-> "ternary", value |-> value, op |-> op, lo |-> lo, hi |-> hi]

Call(function, args) == [type |-> "call", function |-> function, args |-> args]

Cast(operand, to) == [type |-> "cast", operand |-> operand, to |-> to]

CaseExpr(whens, else) == [type |-> "case", whens |-> whens, else |-> else]

SelectedColumn(expr, alias) == [expr |-> expr, alias |-> alias]

JoinClause(type, on) == [type |-> type, on |-> on]

FromTable(name, alias, join) ==
  [type |-> "table", name |-> [name |-> name, alias |-> alias, schema |-> UNDEF],
   join |-> join]

FromStatement(statement, alias) ==
  [type |-> "statement", statement |-> statement, alias |-> alias, join |-> NoJoin]

Select(from, columns, where, groupBy, orderBy, having) ==
  [type |-> "select", from |-> from, columns |-> columns, where |-> where,
   groupBy |-> groupBy, orderBy |-> orderBy, having |-> having]

TableRef(name, alias) == [name |-> name, alias |-> alias, schema |-> UNDEF]

Insert(into, columns) == [type |-> "insert", into |-> TableRef(into, UNDEF), columns |-> columns]

Update(table, alias, sets, where) ==
  [type |-> "update", table |-> TableRef(table, alias), sets |-> sets, where |-> where]

Delete(from, alias, where) ==
  [type |-> "delete", from |-> TableRef(from, alias), where |-> where]

With(bind, in) == [type |-> "with", bind |-> bind, in |-> in]

Binding(alias, statement) == [alias |-> alias, statement |-> statement]

Union(type, left, right) == [type |-> type, left |-> left, right |-> right]

\* ------------------------------------------------------------------------
\* Bounded inputs
\* ------------------------------------------------------------------------

\* longest select list built from the duplicate-prone columns
MaxSelectColumns == 2

SeqsUpTo(S, n) == UNION {[1..k -> S] : k \in 1..n}

\* the name a table is referred to by: its alias when it has one
RefName(name, alias) == IF alias = UNDEF THEN name ELSE alias

\* schemas as parseDDL builds them: lower-cased keys, normalised type strings
UsersColumns == ("id" :> "SERIAL") @@ ("name" :> "VARCHAR(255)")

OrdersColumns == ("id" :> "SERIAL") @@ ("user_id" :> "INT") @@ ("total" :> "NUMERIC(10,2)")

SchemaInputs ==
  {NoSchema,
   [kind |-> "schema", tables |-> ("users" :> UsersColumns) @@ ("orders" :> OrdersColumns)],
   [kind |-> "schema", tables |-> ("users" :> UsersColumns)]}

\* a sub-SELECT used as CTE body, FROM subquery and WHERE subquery
InnerSelect ==
  Select(<<FromTable("users", UNDEF, NoJoin)>>,
         <<SelectedColumn(Ref(UNDEF, "id"), UNDEF)>>,
         Binary(Ref(UNDEF, "active"), "=", BooleanLit(TRUE)),
         <<>>, <<>>, NoExpr)

JoinOns(l, r) ==
  {Binary(Ref(l, "id"), "=", Ref(r, "user_id")),
   Binary(Ref(UNDEF, "id"), "=", Ref(UNDEF, "user_id")),
   Binary(Ref("zz", "id"), "=", Ref(r, "user_id")),
   Binary(Ref(l, "id"), ">", Ref(r, "user_id")),
   Binary(Binary(Ref(l, "id"), "=", Ref(r, "user_id")), "AND",
          Binary(Ref(l, "name"), "=", Ref(r, "total"))),
   NoExpr}

AliasPairs == {<<UNDEF, UNDEF>>, <<"u", "o">>}

FromLists ==
  {<<>>}
  \cup {<<FromTable(n, a, NoJoin)>> : n \in {"users", "orders"}, a \in {UNDEF, "u"}}
  \cup {<<FromTable("Users", "U", NoJoin)>>}
  \cup UNION {{<<FromTable("users", p[1], NoJoin),
                  FromTable("orders", p[2], JoinClause("INNER JOIN", on))>> :
                  on \in JoinOns(RefName("users", p[1]), RefName("orders", p[2]))} :
               p \in AliasPairs}
  \cup {<<FromTable("users", "u", NoJoin),
          FromTable("orders", "o",
                    JoinClause("LEFT JOIN", Binary(Ref("u", "id"), "=", Ref("o", "user_id"))))>>,
        <<FromTable("users", "u", NoJoin),
          FromTable("users", "o",
                    JoinClause("INNER JOIN", Binary(Ref("u", "id"), "=", Ref("o", "id"))))>>,
        <<FromTable("users", UNDEF, NoJoin), FromTable("orders", UNDEF, NoJoin)>>,
        <<FromStatement(InnerSelect, "u")>>}

ColumnShapes ==
  {Ref(UNDEF, "id"), Ref("u", "id"), Ref("users", "id"), Ref("o", "total"),
   Ref(UNDEF, "total"), Ref(UNDEF, "nope"), Ref(UNDEF, "*"), Ref("u", "*"),
   Ref("u", "ID"),
   Call("count", <<Ref(UNDEF, "id")>>),
   Binary(Ref(UNDEF, "total"), "*", Integer(2)),
   Cast(Ref("u", "id"), "text"),
   CaseExpr(<<[when |-> Binary(Ref(UNDEF, "id"), ">", Integer(5)),
               value |-> Ref(UNDEF, "total")]>>, NoExpr)}

DupColumns ==
  {SelectedColumn(Ref(UNDEF, "id"), UNDEF),
   SelectedColumn(Ref(UNDEF, "id"), "x"),
   SelectedColumn(Ref("users", "id"), "y")}

SelectLists ==
  {<<>>}
  \cup {<<SelectedColumn(e, UNDEF)>> : e \in ColumnShapes}
  \cup SeqsUpTo(DupColumns, MaxSelectColumns)

WhereExprs ==
  {NoExpr,
   Binary(Ref(UNDEF, "id"), ">", Integer(5)),
   Binary(Ref("u", "id"), ">", Integer(100)),
   Binary(Ref("o", "status"), "=", StringLit("completed")),
   Binary(Ref(UNDEF, "active"), "=", BooleanLit(TRUE)),
   Binary(Binary(Ref(UNDEF, "id"), ">", Integer(5)), "AND",
          Binary(Ref(UNDEF, "total"), "<", Integer(9))),
   Binary(Call("lower", <<Ref(UNDEF, "id")>>), "=", StringLit("x")),
   Binary(Binary(Ref(UNDEF, "id"), "+", Integer(1)), ">", Integer(5)),
   Unary("NOT", Ref(UNDEF, "id")),
   Ternary(Ref(UNDEF, "id"), "BETWEEN", Integer(1), Integer(5)),
   Binary(Ref(UNDEF, "id"), "IN", InnerSelect)}

SelectStatements ==
  {Select(f, c, w, <<>>, <<>>, NoExpr) :
     f \in FromLists, c \in SelectLists, w \in WhereExprs}

\* SELECTs with GROUP BY, ORDER BY and HAVING over one table
GroupedSelects ==
  {Select(<<FromTable("orders", a, NoJoin)>>,
          <<SelectedColumn(Ref(UNDEF, "user_id"), UNDEF)>>,
          NoExpr, g, o, h) :
     a \in {UNDEF, "o"},
     g \in {<<>>, <<Ref(UNDEF, "user_id")>>, <<Call("lower", <<Ref(UNDEF, "total")>>)>>},
     o \in {<<>>, <<[by |-> Ref("o", "total")]>>},
     h \in {NoExpr, Binary(Ref(UNDEF, "total"), ">", Integer(5))}}

\* the branches of UNIONs, the main queries of WITHs and the parts of
\* multi-statement inputs
JoinSelect(a, b) ==
  Select(<<FromTable(a, "u", NoJoin),
           FromTable(b, "o", JoinClause("INNER JOIN",
                                        Binary(Ref("u", "id"), "=", Ref("o", "user_id"))))>>,
         <<SelectedColumn(Ref("u", "id"), UNDEF)>>, NoExpr, <<>>, <<>>, NoExpr)

SmallSelects ==
  {JoinSelect("users", "orders"),
   JoinSelect("orders", "users"),
   Select(<<FromTable("users", UNDEF, NoJoin)>>,
          <<SelectedColumn(Ref(UNDEF, "id"), UNDEF)>>, NoExpr, <<>>, <<>>, NoExpr),
   Select(<<FromTable("orders", UNDEF, NoJoin)>>,
          <<SelectedColumn(Ref(UNDEF, "id"), "x")>>,
          Binary(Ref(UNDEF, "total"), ">", Integer(5)), <<>>, <<>>, NoExpr),
   Select(<<FromStatement(InnerSelect, "u")>>,
          <<SelectedColumn(Ref("u", "id"), UNDEF)>>, NoExpr, <<>>, <<>>, NoExpr)}

UnionStatements ==
  {Union(t, l, r) : t \in {"union", "union all"}, l \in SmallSelects, r \in SmallSelects}
  \cup {Union("union", Union("union all", l, InnerSelect), r) :
          l \in SmallSelects, r \in SmallSelects}
  \cup {Union("union all", l, Union("union", InnerSelect, r)) :
          l \in SmallSelects, r \in SmallSelects}

\* main queries that read from the CTE named c
CteMains ==
  {Select(<<FromTable("c", UNDEF, NoJoin)>>,
          <<SelectedColumn(Ref(UNDEF, "*"), UNDEF)>>, NoExpr, <<>>, <<>>, NoExpr),
   Select(<<FromTable("c", UNDEF, NoJoin),
            FromTable("orders", "o", JoinClause("LEFT JOIN",
                                       Binary(Ref("c", "id"), "=", Ref("o", "user_id"))))>>,
          <<SelectedColumn(Ref("c", "id"), UNDEF)>>,
          Binary(Ref("o", "total"), ">", Integer(5)), <<>>, <<>>, NoExpr),
   Select(<<FromStatement(InnerSelect, "s")>>,
          <<SelectedColumn(Ref("s", "id"), UNDEF)>>, NoExpr, <<>>, <<>>, NoExpr),
   Select(<<FromTable("c", UNDEF, NoJoin),
            FromTable("orders", "o", JoinClause("INNER JOIN",
                                       Binary(Ref("c", "id"), "=", Ref("o", "user_id"))))>>,
          <<SelectedColumn(Ref(UNDEF, "total"), UNDEF),
            SelectedColumn(Ref(UNDEF, "nope"), UNDEF)>>,
          NoExpr, <<>>, <<>>, NoExpr)}

WithStatements ==
  {With(<<Binding("c", b)>>, m) : b \in SmallSelects \cup {InnerSelect}, m \in CteMains}
  \cup {With(<<Binding("c", b), Binding("d", InnerSelect)>>, m) :
          b \in SmallSelects, m \in CteMains}

WriteStatements ==
  {Insert("users", cols) : cols \in {<<"name", "email">>, <<"name", "name">>, <<>>}}
  \cup {Update("users", a, sets, w) :
          a \in {UNDEF, "u"},
          sets \in {<<[column |-> "name"]>>, <<[column |-> "name"], [column |-> "email"]>>},
          w \in {NoExpr, Binary(Ref(UNDEF, "id"), "=", Integer(5)),
                 Binary(Ref(UNDEF, "name"), "=", StringLit("x")),
                 Binary(Ref("users", "name"), "=", StringLit("x")),
                 Binary(Ref("u", "name"), "=", StringLit("x"))}}
  \cup {Delete("users", a, w) :
          a \in {UNDEF, "u"},
          w \in {NoExpr, Binary(Ref(UNDEF, "id"), "=", Integer(5))}}

\* a statement kind the extractor does not recognise
CreateTable == [type |-> "create table", name |-> TableRef("users", UNDEF)]

MultiParts == SmallSelects \cup {CreateTable, Insert("users", <<"name">>),
                                 Delete("orders", UNDEF, NoExpr)}

\* the JOIN keywords as the parser reports them
JoinTypes == {"INNER JOIN", "LEFT JOIN", "RIGHT JOIN", "FULL JOIN", "CROSS JOIN"}

\* the ON predicates of a chain: an equality of two columns, then a
\* comparison, a conjunction, an expression operand and no ON at all
ChainOns(l, r) ==
  {Binary(Ref(l, "id"), "=", Ref(r, "user_id")),
   Binary(Ref(l, "id"), "<", Ref(r, "user_id")),
   Binary(Binary(Ref(l, "id"), "=", Ref(r, "user_id")), "AND",
          Binary(Ref(r, "total"), ">", Integer(5))),
   Binary(Call("lower", <<Ref(l, "name")>>), "=", Ref(r, "user_id")),
   NoExpr}

\* SELECTs over a chain of two joins
JoinChains ==
  {Select(<<FromTable("users", "u", NoJoin),
            FromTable("orders", "o", JoinClause(t1, on1)),
            FromTable("orders", "p", JoinClause(t2, on2))>>,
          <<SelectedColumn(Ref("u", "id"), UNDEF)>>, NoExpr, <<>>, <<>>, NoExpr) :
     t1 \in JoinTypes, on1 \in ChainOns("u", "o"),
     t2 \in JoinTypes, on2 \in ChainOns("o", "p")}

\* SELECTs in which the alias of one table is the name of the other
AliasClashSelects ==
  {Select(<<FromTable("users", "u", NoJoin),
            FromTable("orders", "users",
                      JoinClause("INNER JOIN", Binary(Ref("u", "id"), "=", Ref("users", "user_id"))))>>,
          <<SelectedColumn(Ref("u", "id"), UNDEF)>>, NoExpr, <<>>, <<>>, NoExpr),
   Select(<<FromTable("orders", "users", NoJoin),
            FromTable("users", "u",
                      JoinClause("LEFT JOIN", Binary(Ref("users", "user_id"), "=", Ref("u", "id"))))>>,
          <<SelectedColumn(Ref("users", "total"), UNDEF)>>, NoExpr, <<>>, <<>>, NoExpr)}

AstInputs ==
  {<<s>> : s \in SelectStatements \cup GroupedSelects \cup UnionStatements \cup JoinChains
                   \cup AliasClashSelects
                   \cup WithStatements \cup WriteStatements \cup {CreateTable}}
  \cup {<<a, b>> : a \in MultiParts, b \in MultiParts}

\* a submitted text together with what the external parser does with it
SqlInputs ==
  {[text |-> "<statements>", ok |-> TRUE, ast |-> a, message |-> UNDEF] : a \in AstInputs}
  \cup {[text |-> t, ok |-> FALSE, ast |-> <<>>, message |-> UNDEF] : t \in {"", "   "}}
  \cup {[text |-> "<malformed>", ok |-> FALSE, ast |-> <<>>,
          message |-> "Syntax error at line 1 col 8"],
        [text |-> "<comment only>", ok |-> TRUE, ast |-> <<>>, message |-> UNDEF]}

\* ------------------------------------------------------------------------
\* The state machine
\* ------------------------------------------------------------------------

\* String.prototype.trim over the submitted texts
trim(text) == IF text \in {" ", "   "} THEN "" ELSE text

NoResult == [type |-> "<none>"]

\* no request or response in flight
NoMessage == [kind |-> "none"]

\* the page's state hooks: sql, schema, parsedQuery, error, isLoading
\* (null is rendered as NoSchema, NoResult and UNDEF)
InitialPage ==
  [sql |-> [text |-> "", ok |-> FALSE, ast |-> <<>>, message |-> UNDEF],
   schema |-> NoSchema, parsedQuery |-> NoResult, error |-> UNDEF, isLoading |-> FALSE]

Init ==
  /\ pc = "idle"
  /\ sql = [text |-> "", ok |-> FALSE, ast |-> <<>>, message |-> UNDEF]
  /\ schema = NoSchema
  /\ extracted = NoResult
  /\ result = NoResult
  /\ error = UNDEF
  /\ calls = <<>>
  /\ page = InitialPage
  /\ request = NoMessage
  /\ response = NoMessage

\* the message of the Error parseSQL throws for this text, UNDEF if none
\* parseSQL handing empty text to the parser
parseSQLThrowsAfterParsing(s) ==
  IF ~s.ok THEN "Failed to parse SQL: " \o s.message
  ELSE IF Len(s.ast) = 0 THEN "Failed to parse SQL: No valid SQL statements found"
  ELSE "<undefined>"

parseSQLThrows(s) ==
  IF ~Truthy(s.text) \/ trim(s.text) = "" THEN "SQL query cannot be empty"
  ELSE IF ~s.ok THEN "Failed to parse SQL: " \o s.message
  ELSE IF Len(s.ast) = 0 THEN "Failed to parse SQL: No valid SQL statements found"
  ELSE UNDEF

\* the steps of parseSQL a call gets to
parseSQLInvokes(s, sc) ==
  IF ~Truthy(s.text) \/ trim(s.text) = "" THEN {}
  ELSE IF ~s.ok \/ Len(s.ast) = 0 THEN {"parse"}
  ELSE IF sc.kind = "schema"
  THEN {"parse", "processStatements", "validateColumnsAgainstSchema"}
  ELSE {"parse", "processStatements"}

\* the Query Fact parseSQL returns when it does not throw
parseSQLReturns(s, sc) ==
  IF sc.kind = "schema"
  THEN validateColumnsAgainstSchema(processStatements(s.ast, s.text), sc)
  ELSE processStatements(s.ast, s.text)

\* parseSQL(sql, schema): one call, from the empty-input check to the return
parseSQL(s, sc) ==
  /\ sql' = s
  /\ schema' = sc
  /\ IF parseSQLThrows(s) # UNDEF
     THEN /\ pc' = "failed"
          /\ error' = parseSQLThrows(s)
          /\ extracted' = NoResult
          /\ result' = NoResult
     ELSE /\ pc' = "returned"
          /\ error' = UNDEF
          /\ extracted' = processStatements(s.ast, s.text)
          /\ result' = IF sc.kind = "schema"
                       THEN validateColumnsAgainstSchema(extracted', sc)
                       ELSE extracted'
  /\ calls' = Append(calls, [fn |-> "parseSQL", sql |-> s, schema |-> sc,
                             threw |-> error', returned |-> result',
                                    invoked |-> parseSQLInvokes(s, sc)])
  /\ UNCHANGED <<page, request, response>>

Next == pc = "idle" /\ \E s \in SqlInputs, sc \in SchemaInputs : parseSQL(s, sc)

Spec == Init /\ [][Next]_vars

\* ------------------------------------------------------------------------
\* The schema parser (parseDDL)
\* ------------------------------------------------------------------------

\* DataType node of a column definition; config holds the length arguments
DataType(name, config) == [name |-> name, config |-> config]

NoDataType == [name |-> UNDEF, config |-> <<>>]

\* typeName.toUpperCase() for the type names outside the type map
typeNameToUpperCase(typeName) ==
  CASE typeName = "citext" -> "CITEXT"
    [] typeName = "geometry" -> "GEOMETRY"
    [] OTHER -> typeName

formatVarchar(dataType) ==
  IF Len(dataType.config) > 0 THEN "VARCHAR(" \o String(dataType.config[1]) \o ")"
  ELSE "VARCHAR"

normalizeDataType(dataType) ==
  IF dataType = NoDataType THEN "unknown"
  ELSE CASE dataType.name = "int" -> "INT"
         [] dataType.name = "integer" -> "INT"
         [] dataType.name = "serial" -> "SERIAL"
         [] dataType.name = "varchar" -> formatVarchar(dataType)
         [] dataType.name = "text" -> "TEXT"
         [] OTHER -> typeNameToUpperCase(dataType.name)

ColumnSchema(name, dataType, nullable, isPrimaryKey, isForeignKey) ==
  [name |-> name, dataType |-> dataType, nullable |-> nullable,
   isPrimaryKey |-> isPrimaryKey, isForeignKey |-> isForeignKey]

\* the names a table-level constraint adds to primaryKeyColumns
RECURSIVE addConstraintColumns(_, _, _)
addConstraintColumns(columns, i, primaryKeyColumns) ==
  IF i > Len(columns) THEN primaryKeyColumns
  ELSE addConstraintColumns(columns, i + 1,
         IF Truthy(columns[i].name)
         THEN primaryKeyColumns \cup {toLowerCase(columns[i].name)}
         ELSE primaryKeyColumns)

\* first pass of extractTableInfo: the table-level PRIMARY KEY constraints
RECURSIVE primaryKeyColumnsOf(_, _, _)
primaryKeyColumnsOf(constraints, i, primaryKeyColumns) ==
  IF i > Len(constraints) THEN primaryKeyColumns
  ELSE primaryKeyColumnsOf(constraints, i + 1,
         IF constraints[i].type = "primary key"
         THEN addConstraintColumns(constraints[i].columns, 1, primaryKeyColumns)
         ELSE primaryKeyColumns)

\* one column-level constraint acting on the flags of its column
applyConstraintIgnoringPrimaryKey(column, constraint) ==
  IF constraint.type = "not null" THEN [column EXCEPT !.nullable = FALSE]
  ELSE IF constraint.type = "reference" THEN [column EXCEPT !.isForeignKey = TRUE]
  ELSE column

applyConstraint(column, constraint) ==
  IF constraint.type = "not null" THEN [column EXCEPT !.nullable = FALSE]
  ELSE IF constraint.type = "primary key"
  THEN [column EXCEPT !.isPrimaryKey = TRUE, !.nullable = FALSE]
  ELSE IF constraint.type = "reference" THEN [column EXCEPT !.isForeignKey = TRUE]
  ELSE column

RECURSIVE applyConstraints(_, _, _)
applyConstraints(column, constraints, i) ==
  IF i > Len(constraints) THEN column
  ELSE applyConstraints(applyConstraint(column, constraints[i]), constraints, i + 1)

\* "Primary key columns are not nullable"
primaryKeyNotNullable(column) ==
  IF column.isPrimaryKey THEN [column EXCEPT !.nullable = FALSE] ELSE column

\* the ColumnSchema of one column definition
extractColumnInfo(col, primaryKeyColumns) ==
  primaryKeyNotNullable(
    applyConstraints(
      ColumnSchema(col.name.name, normalizeDataType(col.dataType), TRUE,
                   toLowerCase(col.name.name) \in primaryKeyColumns, FALSE),
      col.constraints, 1))

\* second pass of extractTableInfo
RECURSIVE extractColumnInfos(_, _, _, _)
extractColumnInfos(cols, i, primaryKeyColumns, columns) ==
  IF i > Len(cols) THEN columns
  ELSE extractColumnInfos(cols, i + 1, primaryKeyColumns,
         IF cols[i].kind # "column" \/ ~Truthy(cols[i].name.name) THEN columns
         ELSE Append(columns, extractColumnInfo(cols[i], primaryKeyColumns)))

NoTable == [name |-> UNDEF]

extractTableInfo(stmt) ==
  IF ~Truthy(stmt.name.name) THEN NoTable
  ELSE [name |-> stmt.name.name, schema |-> stmt.name.schema,
        columns |-> extractColumnInfos(stmt.columns, 1,
                      primaryKeyColumnsOf(stmt.constraints, 1, {}), <<>>)]

\* tables[table][column] = dataType for the columns of one table
RECURSIVE columnTypes(_, _, _)
columnTypes(columns, i, m) ==
  IF i > Len(columns) THEN m
  ELSE columnTypes(columns, i + 1,
                   MapSet(m, toLowerCase(columns[i].name), columns[i].dataType))

EmptySchema == [kind |-> "schema", tables |-> EmptyMap, tableDetails |-> <<>>]

addTable(sch, tableInfo) ==
  IF tableInfo = NoTable THEN sch
  ELSE [sch EXCEPT !.tables = MapSet(sch.tables, toLowerCase(tableInfo.name),
                                     columnTypes(tableInfo.columns, 1, EmptyMap)),
                   !.tableDetails = Append(sch.tableDetails, tableInfo)]

\* the loop of parseDDL over the statements
RECURSIVE collectTables(_, _, _)
collectTables(ast, i, sch) ==
  IF i > Len(ast) THEN sch
  ELSE collectTables(ast, i + 1,
         IF ast[i].type # "create table" THEN sch
         ELSE addTable(sch, extractTableInfo(ast[i])))

SchemaParseResult(success, sch, err, tableCount) ==
  [success |-> success, schema |-> sch, error |-> err, tableCount |-> tableCount]

schemaResult(sch) == SchemaParseResult(TRUE, sch, UNDEF, Len(sch.tableDetails))

\* what parseDDL returns; d is the DDL text with what the parser makes of it
parseDDLReturns(d) ==
  IF ~Truthy(d.text) \/ trim(d.text) = ""
  THEN SchemaParseResult(FALSE, NoSchema, "DDL cannot be empty", UNDEF)
  ELSE IF ~d.ok
  THEN SchemaParseResult(FALSE, NoSchema, "Failed to parse DDL: " \o d.message, UNDEF)
  ELSE IF Len(d.ast) = 0
  THEN SchemaParseResult(FALSE, NoSchema, "No valid SQL statements found", UNDEF)
  ELSE schemaResult(collectTables(d.ast, 1, EmptySchema))

\* a call of parseDDL
parseDDL(d) ==
  /\ pc' = "parsed ddl"
  /\ calls' = Append(calls, [fn |-> "parseDDL", ddl |-> d, returned |-> parseDDLReturns(d)])
  /\ UNCHANGED <<sql, schema, extracted, result, error, page, request, response>>

\* DDL statements
ColumnDef(name, dataType, constraints) ==
  [kind |-> "column", name |-> [name |-> name], dataType |-> dataType,
   constraints |-> constraints]

ColumnConstraint(type) == [type |-> type]

TableConstraint(type, columns) ==
  [type |-> type, columns |-> [i \in 1..Len(columns) |-> [name |-> columns[i]]]]

CreateTableStatement(name, columns, constraints) ==
  [type |-> "create table", name |-> TableRef(name, UNDEF), columns |-> columns,
   constraints |-> constraints]

\* the constraint lists of a column definition
ColumnConstraintLists ==
  {<<>>, <<ColumnConstraint("not null")>>, <<ColumnConstraint("primary key")>>,
   <<ColumnConstraint("reference")>>, <<ColumnConstraint("null")>>,
   <<ColumnConstraint("unique")>>,
   <<ColumnConstraint("not null"), ColumnConstraint("reference")>>,
   <<ColumnConstraint("reference"), ColumnConstraint("primary key")>>}

\* the table-level constraint lists
TableConstraintLists ==
  {<<>>, <<TableConstraint("primary key", <<"id">>)>>,
   <<TableConstraint("primary key", <<"ID">>)>>,
   <<TableConstraint("primary key", <<"id", "user_id">>)>>,
   <<TableConstraint("foreign key", <<"user_id">>)>>,
   <<TableConstraint("unique", <<"id">>), TableConstraint("primary key", <<"user_id">>)>>}

DdlStatements ==
  {CreateTableStatement("orders",
     <<ColumnDef(n, DataType("serial", <<>>), c1),
       ColumnDef("user_id", DataType("varchar", <<255>>), c2)>>, t) :
     n \in {"id", "ID"}, c1 \in ColumnConstraintLists,
     c2 \in {<<>>, <<ColumnConstraint("reference")>>, <<ColumnConstraint("not null")>>},
     t \in TableConstraintLists}

DdlInputs ==
  {[text |-> "<statements>", ok |-> TRUE, ast |-> <<q>>, message |-> UNDEF] :
     q \in DdlStatements}
  \cup {[text |-> "<statements>", ok |-> TRUE, ast |-> a, message |-> UNDEF] :
          a \in {<<CreateTableStatement("users", <<>>, <<>>),
                   Delete("orders", UNDEF, NoExpr),
                   CreateTableStatement("Users",
                     <<ColumnDef("id", NoDataType, <<>>),
                       ColumnDef("name", DataType("citext", <<>>), <<>>)>>, <<>>)>>}}
  \cup {[text |-> "", ok |-> FALSE, ast |-> <<>>, message |-> UNDEF],
        [text |-> "   ", ok |-> FALSE, ast |-> <<>>, message |-> UNDEF],
        [text |-> "<malformed>", ok |-> FALSE, ast |-> <<>>,
         message |-> "Syntax error at line 1 col 8"],
        [text |-> "<comment only>", ok |-> TRUE, ast |-> <<>>, message |-> UNDEF]}

NextDDL == pc = "idle" /\ \E d \in DdlInputs : parseDDL(d)

SpecDDL == Init /\ [][NextDDL]_vars

\* ------------------------------------------------------------------------
\* Sequences of calls of the two parsers
\* ------------------------------------------------------------------------

\* the number of calls in a sequence
MaxCalls == 3

\* the queries called repeatedly
CallSqlInputs ==
  {[text |-> "<statements>", ok |-> TRUE, ast |-> a, message |-> UNDEF] :
     a \in {<<JoinSelect("users", "orders")>>,
            <<Select(<<FromTable("users", "u", NoJoin)>>,
                     <<SelectedColumn(Ref("u", "nope"), UNDEF)>>, NoExpr, <<>>, <<>>, NoExpr)>>,
            <<With(<<Binding("c", InnerSelect)>>,
                   Select(<<FromTable("c", UNDEF, NoJoin)>>,
                          <<SelectedColumn(Ref(UNDEF, "id"), UNDEF)>>,
                          NoExpr, <<>>, <<>>, NoExpr))>>}}
  \cup {[text |-> "<malformed>", ok |-> FALSE, ast |-> <<>>,
         message |-> "Syntax error at line 1 col 8"],
        [text |-> "   ", ok |-> FALSE, ast |-> <<>>, message |-> UNDEF],
        [text |-> "<comment only>", ok |-> TRUE, ast |-> <<>>, message |-> UNDEF]}

\* the schemas passed to the repeated queries
CallSchemaInputs ==
  {NoSchema, [kind |-> "schema", tables |-> ("users" :> UsersColumns)]}

\* the DDL parsed between the queries
CallDdlInputs ==
  {[text |-> "<statements>", ok |-> TRUE, message |-> UNDEF,
    ast |-> <<CreateTableStatement("users",
                <<ColumnDef("id", DataType("serial", <<>>), <<ColumnConstraint("primary key")>>)>>,
                <<>>)>>],
   [text |-> "", ok |-> FALSE, ast |-> <<>>, message |-> UNDEF]}

NextCalls ==
  \/ \E s \in CallSqlInputs, sc \in CallSchemaInputs : Len(calls) < MaxCalls /\ parseSQL(s, sc)
  \/ \E d \in CallDdlInputs : Len(calls) < MaxCalls /\ parseDDL(d)

SpecCalls == Init /\ [][NextCalls]_vars

\* ------------------------------------------------------------------------
\* The query diagram (generateDiagramLayout)
\* ------------------------------------------------------------------------

\* the id of the node of a table: table.alias || table.name
tableId(table) == OrElse(table.alias, table.name)

\* a diagram node, without its position and its column list
DiagramNode(id, table) == [id |-> id, tableName |-> table.name, alias |-> table.alias]

DiagramEdge(join, index) ==
  [id |-> join.leftTable \o "-" \o join.rightTable \o "-" \o String(index),
   source |-> join.leftTable, target |-> join.rightTable, joinType |-> join.type,
   leftColumn |-> join.leftColumn, rightColumn |-> join.rightColumn]

\* parsedQuery.tables.find(t => (t.alias || t.name) === targetId): index or 0
FindTableById(tables, targetId) ==
  LET hits == {i \in 1..Len(tables) : tableId(tables[i]) = targetId}
  IN IF hits = {} THEN 0 ELSE MinOf(hits)

\* the layout with the first table positioned
firstNode(table) ==
  [nodes |-> <<DiagramNode(tableId(table), table)>>, edges |-> <<>>,
   positionedTables |-> {tableId(table)}]

\* the node of the target of a join, if it is not positioned yet and is
\* the id of a table
positionTarget(layout, tables, targetId) ==
  IF targetId \in layout.positionedTables \/ FindTableById(tables, targetId) = 0 THEN layout
  ELSE [layout EXCEPT
          !.nodes = Append(@, DiagramNode(targetId, tables[FindTableById(tables, targetId)])),
          !.positionedTables = @ \cup {targetId}]

\* the body of the forEach over the joins; index counts from 0
layoutJoin(layout, tables, join, index) ==
  [positionTarget(layout, tables, join.rightTable)
     EXCEPT !.edges = Append(@, DiagramEdge(join, index))]

RECURSIVE layoutJoins(_, _, _, _)
layoutJoins(layout, tables, joins, k) ==
  IF k > Len(joins) THEN layout
  ELSE layoutJoins(layoutJoin(layout, tables, joins[k], k - 1), tables, joins, k + 1)

\* the forEach over the tables that no join positioned
RECURSIVE layoutRemaining(_, _, _)
layoutRemaining(layout, tables, k) ==
  IF k > Len(tables) THEN layout
  ELSE layoutRemaining(
         IF tableId(tables[k]) \in layout.positionedTables THEN layout
         ELSE [layout EXCEPT !.nodes = Append(@, DiagramNode(tableId(tables[k]), tables[k])),
                             !.positionedTables = @ \cup {tableId(tables[k])}],
         tables, k + 1)

generateDiagramLayout(parsedQuery) ==
  IF Len(parsedQuery.tables) = 0
  THEN [nodes |-> <<>>, edges |-> <<>>, positionedTables |-> {}]
  ELSE layoutRemaining(
         layoutJoins(firstNode(parsedQuery.tables[1]), parsedQuery.tables,
                     parsedQuery.joins, 1),
         parsedQuery.tables, 1)

\* ------------------------------------------------------------------------
\* The page and the POST /api/parse route
\* ------------------------------------------------------------------------

\* the queries offered to the page: one-table SELECTs of every column
\* shape, and the small statements
PageExamples ==
  {[text |-> "<statements>", ok |-> TRUE, ast |-> <<q>>, message |-> UNDEF] :
     q \in {Select(<<FromTable("users", a, NoJoin)>>, <<SelectedColumn(e, UNDEF)>>,
                   NoExpr, <<>>, <<>>, NoExpr) :
              a \in {UNDEF, "u"}, e \in ColumnShapes}
           \cup SmallSelects}

\* the texts typed into the editor that are not statements
PageTexts ==
  {[text |-> "   ", ok |-> FALSE, ast |-> <<>>, message |-> UNDEF],
   [text |-> "<malformed>", ok |-> FALSE, ast |-> <<>>,
    message |-> "Syntax error at line 1 col 8"],
   [text |-> "<comment only>", ok |-> TRUE, ast |-> <<>>, message |-> UNDEF]}

\* the editor's onChange
setSql(s) ==
  /\ page' = [page EXCEPT !.sql = s]
  /\ UNCHANGED <<pc, sql, schema, extracted, result, error, calls, request, response>>

\* the example selector, disabled while a parse is loading
handleLoadExample(s) ==
  /\ ~page.isLoading
  /\ page' = [page EXCEPT !.sql = s, !.error = UNDEF, !.parsedQuery = NoResult]
  /\ UNCHANGED <<pc, sql, schema, extracted, result, error, calls, request, response>>

handleClear ==
  /\ page' = [page EXCEPT !.sql = InitialPage.sql, !.parsedQuery = NoResult,
                          !.error = UNDEF]
  /\ UNCHANGED <<pc, sql, schema, extracted, result, error, calls, request, response>>

\* handleLoadSchema with the outcome of parseDDL: a schema, or NoSchema
\* when parseDDL fails
handleLoadSchema(sc) ==
  /\ page' = [page EXCEPT !.schema = sc]
  /\ UNCHANGED <<pc, sql, schema, extracted, result, error, calls, request, response>>

handleClearSchema ==
  /\ page' = [page EXCEPT !.schema = NoSchema]
  /\ UNCHANGED <<pc, sql, schema, extracted, result, error, calls, request, response>>

\* handleParse up to the fetch: the parse button is disabled while loading
handleParse ==
  /\ ~page.isLoading
  /\ request = NoMessage
  /\ IF trim(page.sql.text) = ""
     THEN /\ page' = [page EXCEPT !.error = "Please enter a SQL query"]
          /\ request' = request
     ELSE /\ page' = [page EXCEPT !.isLoading = TRUE, !.error = UNDEF]
          /\ request' = [kind |-> "request", sql |-> page.sql, schema |-> page.schema]
  /\ UNCHANGED <<pc, sql, schema, extracted, result, error, calls, response>>

\* a JSON response of the route
Response(status, success, data, err) ==
  [kind |-> "response", status |-> status, success |-> success,
   data |-> data, error |-> err]

\* the status the catch block of the route picks for an error message
statusOf(message) ==
  IF message \in {"SQL query cannot be empty",
                  "Failed to parse SQL: Syntax error at line 1 col 8",
                  "Failed to parse SQL: No valid SQL statements found"}
  THEN 400 ELSE 500

\* what POST answers to a request body
respond(body) ==
  IF ~Truthy(body.sql.text) THEN Response(400, FALSE, NoResult, "SQL query is required")
  ELSE IF trim(body.sql.text) = ""
  THEN Response(400, FALSE, NoResult, "SQL query cannot be empty")
  ELSE IF parseSQLThrows(body.sql) # UNDEF
  THEN Response(statusOf(parseSQLThrows(body.sql)), FALSE, NoResult,
                parseSQLThrows(body.sql))
  ELSE Response(200, TRUE, parseSQLReturns(body.sql, NoSchema), UNDEF)

\* POST /api/parse: the request stays pending until the page has the answer
POST ==
  /\ request # NoMessage
  /\ response = NoMessage
  /\ response' = respond(request)
  /\ UNCHANGED <<pc, sql, schema, extracted, result, error, calls, page, request>>

\* handleParse from the awaited response on
handleParseResponse ==
  /\ response # NoMessage
  /\ page' = IF response.status = 200 /\ response.success /\ response.data # NoResult
             THEN [page EXCEPT !.parsedQuery = response.data, !.error = UNDEF,
                               !.isLoading = FALSE]
             ELSE [page EXCEPT !.parsedQuery = NoResult,
                               !.error = OrElse(response.error, "Failed to parse query"),
                               !.isLoading = FALSE]
  /\ request' = NoMessage
  /\ response' = NoMessage
  /\ UNCHANGED <<pc, sql, schema, extracted, result, error, calls>>

\* the invalid-column count the page displays
invalidColumnCount(parsedQuery, sch) ==
  IF parsedQuery = NoResult \/ sch = NoSchema THEN 0
  ELSE Cardinality({i \in 1..Len(parsedQuery.columns) :
                      parsedQuery.columns[i].isValid = "false"})

NextPage ==
  \/ \E s \in PageTexts : setSql(s)
  \/ \E s \in PageExamples : handleLoadExample(s)
  \/ handleClear
  \/ \E sc \in SchemaInputs : handleLoadSchema(sc)
  \/ handleClearSchema
  \/ handleParse
  \/ POST
  \/ handleParseResponse

SpecPage == Init /\ [][NextPage]_vars

\* ------------------------------------------------------------------------
\* Vocabulary of the properties
\* ------------------------------------------------------------------------

Returned == pc = "returned"

\* the call was given one statement, a plain SELECT
SingleSelect == Returned /\ Len(sql.ast) = 1 /\ sql.ast[1].type = "select"

Validated == Returned /\ schema.kind = "schema"

\* the identity of a Column Fact: an unset table counts as ""
ColumnKey(c) == <<OrElse(c.table, ""), c.name>>

SeqRange(seq) == {seq[i] : i \in 1..Len(seq)}

TableNamesAndAliases(tables) ==
  {t.name : t \in SeqRange(tables)}
  \cup {t.alias : t \in {x \in SeqRange(tables) : Truthy(x.alias)}}

\* the names a FROM table item can be referred to by
NamesOf(item) ==
  {item.name.name} \cup (IF item.name.alias # UNDEF THEN {item.name.alias} ELSE {})

\* the column references of an expression, sub-SELECTs excluded
RECURSIVE RefsIn(_)
RefsIn(e) ==
  IF ~Present(e) THEN {}
  ELSE IF e.type = "ref" THEN {e}
  ELSE IF e.type = "binary" THEN RefsIn(e.left) \cup RefsIn(e.right)
  ELSE IF e.type = "unary" THEN RefsIn(e.operand)
  ELSE IF e.type = "ternary" THEN RefsIn(e.value) \cup RefsIn(e.lo) \cup RefsIn(e.hi)
  ELSE IF e.type = "call" THEN UNION {RefsIn(e.args[i]) : i \in 1..Len(e.args)}
  ELSE IF e.type = "cast" THEN RefsIn(e.operand)
  ELSE IF e.type = "case"
       THEN UNION {RefsIn(e.whens[i].when) \cup RefsIn(e.whens[i].value) :
                     i \in 1..Len(e.whens)}
            \cup RefsIn(e.else)
  ELSE {}

SelectListRefs(stmt) == UNION {RefsIn(stmt.columns[i].expr) : i \in 1..Len(stmt.columns)}

FilterRefs(stmt) ==
  RefsIn(stmt.where)
  \cup UNION {RefsIn(stmt.groupBy[i]) : i \in 1..Len(stmt.groupBy)}
  \cup UNION {RefsIn(stmt.orderBy[i].by) : i \in 1..Len(stmt.orderBy)}

OnRefs(stmt) ==
  UNION {IF stmt.from[i].type = "table" /\ Present(stmt.from[i].join)
         THEN RefsIn(stmt.from[i].join.on) ELSE {} : i \in 1..Len(stmt.from)}

KeysOf(refs, tables) ==
  {<<OrElse(resolveTableName(r.table, tables), ""), r.name>> : r \in refs}

\* the SELECT branches of a statement, in the order they are walked
RECURSIVE SelectBranches(_)
SelectBranches(stmt) ==
  IF stmt.type = "select" THEN <<stmt>>
  ELSE IF stmt.type \in {"union", "union all"}
       THEN SelectBranches(stmt.left) \o SelectBranches(stmt.right)
  ELSE <<>>

\* FROM is `A [a] JOIN B [b] ON qa.x = qb.y`, qa and qb naming A and B
SimpleJoin(stmt) ==
  /\ Len(stmt.from) = 2
  /\ stmt.from[1].type = "table"
  /\ stmt.from[2].type = "table"
  /\ Present(stmt.from[2].join)
  /\ Present(stmt.from[2].join.on)
  /\ stmt.from[2].join.on.type = "binary"
  /\ stmt.from[2].join.on.op = "="
  /\ stmt.from[2].join.on.left.type = "ref"
  /\ stmt.from[2].join.on.right.type = "ref"
  /\ stmt.from[2].join.on.left.table \in NamesOf(stmt.from[1])
  /\ stmt.from[2].join.on.right.table \in NamesOf(stmt.from[2])

\* ------------------------------------------------------------------------
\* C1: in the Query Fact returned by parseSQL, with or without a schema, no
\* two Column Facts share the same (table, name) pair, an unset table
\* counting as "".
\* ------------------------------------------------------------------------
Claim_C1_UniqueColumns ==
  Returned =>
    \A i, j \in 1..Len(result.columns) :
      i # j => ColumnKey(result.columns[i]) # ColumnKey(result.columns[j])

\* ------------------------------------------------------------------------
\* C2: for every Join Fact of a returned Query Fact, leftTable and rightTable
\* are each the name or the alias of a Table Fact in its tables list.
\* ------------------------------------------------------------------------
Claim_C2_JoinTablesListed ==
  Returned =>
    \A k \in 1..Len(result.joins) :
      /\ result.joins[k].leftTable \in TableNamesAndAliases(result.tables)
      /\ result.joins[k].rightTable \in TableNamesAndAliases(result.tables)

\* ------------------------------------------------------------------------
\* C3: the role flags of each returned Column Fact are the OR of the roles
\* of all occurrences of its (table, name): it is selected iff the column
\* occurs in the SELECT list and a filter column iff it occurs in WHERE,
\* GROUP BY or ORDER BY, so a column of both is one fact with both flags.
\* ------------------------------------------------------------------------
Claim_C3_RoleUnion ==
  (SingleSelect /\ schema.kind = "undefined") =>
    \A i \in 1..Len(result.columns) :
      LET c == result.columns[i]
          stmt == sql.ast[1]
      IN /\ c.isSelected
              = (ColumnKey(c) \in KeysOf(SelectListRefs(stmt), result.tables))
         /\ c.isFilterColumn
              = (ColumnKey(c) \in KeysOf(FilterRefs(stmt), result.tables))

\* ------------------------------------------------------------------------
\* C4: for `A [a] JOIN B [b] ON qa.x = qb.y`, qa and qb being names or
\* aliases of A and B, the Join Fact is (A's name, x, B's name, y) and the
\* Column Facts (A, x) and (B, y) exist with isJoinColumn set.
\* ------------------------------------------------------------------------
Claim_C4_JoinSymmetry ==
  (Returned /\ schema.kind = "undefined" /\ Len(sql.ast) = 1) =>
    LET branches == SelectBranches(sql.ast[1])
    IN (Len(branches) > 0 /\ \A b \in 1..Len(branches) : SimpleJoin(branches[b])) =>
         /\ Len(result.joins) = Len(branches)
         /\ \A b \in 1..Len(branches) :
              LET A == branches[b].from[1].name.name
                  B == branches[b].from[2].name.name
                  on == branches[b].from[2].join.on
              IN /\ result.joins[b].leftTable = A
                 /\ result.joins[b].leftColumn = on.left.name
                 /\ result.joins[b].rightTable = B
                 /\ result.joins[b].rightColumn = on.right.name
                 /\ \E c \in SeqRange(result.columns) :
                      c.table = A /\ c.name = on.left.name /\ c.isJoinColumn
                 /\ \E c \in SeqRange(result.columns) :
                      c.table = B /\ c.name = on.right.name /\ c.isJoinColumn

\* ------------------------------------------------------------------------
\* C5: validation of a Column Fact that has a table qualifier is tri-state.
\* With T the qualifier lower-cased and resolved through the aliases of the
\* Table Facts: T absent from the schema leaves isValid and dataType unset;
\* T present without the column (compared case-insensitively) gives
\* isValid=false and no dataType; both present give isValid=true and the
\* schema's type string.  Without a schema nothing is annotated.
\* ------------------------------------------------------------------------

\* the lower-cased real name of the last Table Fact that carries the
\* qualifier as alias or name (case-insensitively), else the qualifier
AliasResolved(qualifier, tables) ==
  LET k == toLowerCase(qualifier)
      hits == {i \in 1..Len(tables) :
                 \/ toLowerCase(tables[i].name) = k
                 \/ (Truthy(tables[i].alias) /\ toLowerCase(tables[i].alias) = k)}
  IN IF hits = {} THEN k
     ELSE toLowerCase(tables[CHOOSE m \in hits : \A n \in hits : n <= m].name)

TriState(pre, post) ==
  LET T == AliasResolved(pre.table, result.tables)
      c == toLowerCase(pre.name)
  IN IF T \notin DOMAIN schema.tables
     THEN post.isValid = UNDEF /\ post.dataType = UNDEF
     ELSE IF c \notin DOMAIN schema.tables[T]
     THEN post.isValid = "false" /\ post.dataType = UNDEF
     ELSE post.isValid = "true" /\ post.dataType = schema.tables[T][c]

Thm_C5_TriStateValidation ==
  Returned =>
    /\ Len(result.columns) = Len(extracted.columns)
    /\ schema.kind = "undefined" =>
         \A i \in 1..Len(result.columns) :
           result.columns[i].isValid = UNDEF /\ result.columns[i].dataType = UNDEF
    /\ schema.kind = "schema" =>
         \A i \in 1..Len(result.columns) :
           Truthy(extracted.columns[i].table) =>
             TriState(extracted.columns[i], result.columns[i])

\* one validated result shows a qualified column left unjudged because its
\* table is not in the schema, one judged invalid and one judged valid
Wit_C5_AllThreeOutcomes ==
  /\ Validated
  /\ \E i, j, k \in 1..Len(result.columns) :
       /\ Truthy(extracted.columns[i].table)
       /\ Truthy(extracted.columns[j].table)
       /\ Truthy(extracted.columns[k].table)
       /\ AliasResolved(extracted.columns[i].table, result.tables)
            \notin DOMAIN schema.tables
       /\ result.columns[i].isValid = UNDEF
       /\ result.columns[j].isValid = "false"
       /\ result.columns[k].isValid = "true"

\* ------------------------------------------------------------------------
\* C6: after validation against a schema, isValid=false implies dataType
\* absent and isValid=true implies dataType present.
\* ------------------------------------------------------------------------
Claim_C6_ValidHasDataType ==
  Validated =>
    \A i \in 1..Len(result.columns) :
      /\ result.columns[i].isValid = "false" => result.columns[i].dataType = UNDEF
      /\ result.columns[i].isValid = "true" => result.columns[i].dataType # UNDEF

\* the Column Fact had no table and the schema has its name in two or more
\* of the query's Table Facts
Ambiguous(pre) ==
  /\ ~Truthy(pre.table)
  /\ Cardinality({t \in 1..Len(result.tables) :
        /\ toLowerCase(result.tables[t].name) \in DOMAIN schema.tables
        /\ toLowerCase(pre.name)
             \in DOMAIN schema.tables[toLowerCase(result.tables[t].name)]}) >= 2

\* C6 as amended: isValid=false implies dataType absent; isValid=true
\* implies dataType present, except for a Column Fact without a table whose
\* name the schema has in two or more of the query's Table Facts, which is
\* valid without a dataType.
Thm_C6_ValidHasDataTypeUnlessAmbiguous ==
  Validated =>
    \A i \in 1..Len(result.columns) :
      /\ result.columns[i].isValid = "false" => result.columns[i].dataType = UNDEF
      /\ (result.columns[i].isValid = "true" /\ ~Ambiguous(extracted.columns[i]))
           => result.columns[i].dataType # UNDEF
      /\ Ambiguous(extracted.columns[i])
           => result.columns[i].isValid = "true" /\ result.columns[i].dataType = UNDEF

Wit_C6_ValidInvalidAndAmbiguous ==
  /\ Validated
  /\ \E i, j, k \in 1..Len(result.columns) :
       /\ result.columns[i].isValid = "true" /\ result.columns[i].dataType # UNDEF
       /\ result.columns[j].isValid = "false"
       /\ Ambiguous(extracted.columns[k])

\* ------------------------------------------------------------------------
\* C7: when every column a query references exists in the schema table it
\* belongs to, validation marks no Column Fact isValid=false, also when the
\* select list uses `*` or `alias.*`.
\* ------------------------------------------------------------------------

QueryRefs(stmt) == SelectListRefs(stmt) \cup FilterRefs(stmt) \cup OnRefs(stmt)

FromTableItems(stmt) == {stmt.from[i] : i \in {k \in 1..Len(stmt.from) : stmt.from[k].type = "table"}}

\* the schema has the table of this FROM item
InSchema(item) == toLowerCase(item.name.name) \in DOMAIN schema.tables

\* the schema has column `name` in the table of this FROM item
HasColumn(item, name) ==
  /\ InSchema(item)
  /\ toLowerCase(name) \in DOMAIN schema.tables[toLowerCase(item.name.name)]

\* the reference names a column that exists: every column for `*`, else the
\* named column of the table the qualifier refers to, or of some FROM table
\* when there is no qualifier
RefExists(r, stmt) ==
  IF r.table = UNDEF
  THEN r.name = "*" \/ \E item \in FromTableItems(stmt) : HasColumn(item, r.name)
  ELSE \E item \in FromTableItems(stmt) :
         /\ r.table \in NamesOf(item)
         /\ IF r.name = "*" THEN InSchema(item) ELSE HasColumn(item, r.name)

Claim_C7_NoFalseInvalid ==
  (SingleSelect /\ schema.kind = "schema"
     /\ FromTableItems(sql.ast[1]) # {}
     /\ \A item \in FromTableItems(sql.ast[1]) : InSchema(item)
     /\ \A r \in QueryRefs(sql.ast[1]) : RefExists(r, sql.ast[1])) =>
    \A i \in 1..Len(result.columns) : result.columns[i].isValid # "false"

\* ------------------------------------------------------------------------
\* C8: the condition string recorded for a WHERE comparison names the
\* column without its table qualifier: `WHERE o.status = 'completed'` is
\* recorded as "status = 'completed'".
\* ------------------------------------------------------------------------
Claim_C8_ConditionWithoutQualifier ==
  (SingleSelect
     /\ sql.ast[1].where.type = "binary"
     /\ sql.ast[1].where.op \notin {"AND", "OR"}
     /\ sql.ast[1].where.left.type = "ref"
     /\ sql.ast[1].where.right.type \in {"string", "integer"}
     /\ \E item \in FromTableItems(sql.ast[1]) :
          sql.ast[1].where.left.table \in NamesOf(item) \cup {UNDEF}) =>
    LET w == sql.ast[1].where
    IN result.whereConditions
         = << w.left.name \o " " \o w.op \o " " \o stringifyExpression(w.right) >>

\* ------------------------------------------------------------------------
\* C9: every table and column exposed by a CTE body or by a FROM/WHERE
\* subquery also appears in the enclosing Query Fact's own tables and
\* columns lists.
\* ------------------------------------------------------------------------

\* the sub-SELECTs among the operands of an expression
RECURSIVE SubSelectsIn(_)
SubSelectsIn(e) ==
  IF ~Present(e) THEN {}
  ELSE IF e.type = "select" THEN {e}
  ELSE IF e.type = "binary" THEN SubSelectsIn(e.left) \cup SubSelectsIn(e.right)
  ELSE IF e.type = "unary" THEN SubSelectsIn(e.operand)
  ELSE IF e.type = "call" THEN UNION {SubSelectsIn(e.args[i]) : i \in 1..Len(e.args)}
  ELSE {}

\* the CTE bodies and FROM/WHERE subqueries of a statement
RECURSIVE NestedOf(_)
NestedOf(stmt) ==
  IF stmt.type = "select"
  THEN {stmt.from[i].statement :
          i \in {k \in 1..Len(stmt.from) : stmt.from[k].type = "statement"}}
       \cup SubSelectsIn(stmt.where)
  ELSE IF stmt.type = "with"
  THEN {stmt.bind[i].statement : i \in 1..Len(stmt.bind)} \cup NestedOf(stmt.in)
  ELSE IF stmt.type \in {"union", "union all"}
  THEN NestedOf(stmt.left) \cup NestedOf(stmt.right)
  ELSE IF stmt.type \in {"update", "delete"} THEN SubSelectsIn(stmt.where)
  ELSE {}

\* the tables and the directly selected columns a SELECT exposes
ExposedTables(n) == {item.name.name : item \in FromTableItems(n)}

ExposedColumns(n) ==
  {n.columns[i].expr.name :
     i \in {k \in 1..Len(n.columns) : n.columns[k].expr.type = "ref"}}

Claim_C9_NestedMergedUpward ==
  Returned =>
    \A s \in 1..Len(sql.ast) :
      \A n \in {x \in NestedOf(sql.ast[s]) : x.type = "select"} :
        /\ ExposedTables(n) \subseteq {t.name : t \in SeqRange(result.tables)}
        /\ ExposedColumns(n) \subseteq {c.name : c \in SeqRange(result.columns)}

EmptySelect == Select(<<>>, <<>>, NoExpr, <<>>, <<>>, NoExpr)

\* the expression with every sub-SELECT operand emptied
RECURSIVE WithoutSubSelects(_)
WithoutSubSelects(e) ==
  IF ~Present(e) THEN e
  ELSE IF e.type = "select" THEN EmptySelect
  ELSE IF e.type = "binary"
       THEN [e EXCEPT !.left = WithoutSubSelects(e.left),
                      !.right = WithoutSubSelects(e.right)]
  ELSE IF e.type = "unary" THEN [e EXCEPT !.operand = WithoutSubSelects(e.operand)]
  ELSE IF e.type = "call"
       THEN [e EXCEPT !.args = [i \in 1..Len(e.args) |-> WithoutSubSelects(e.args[i])]]
  ELSE e

\* the statement with every CTE body and FROM/WHERE subquery emptied
RECURSIVE WithoutNested(_)
WithoutNested(stmt) ==
  IF stmt.type = "select"
  THEN [stmt EXCEPT
          !.from = [i \in 1..Len(stmt.from) |->
                      IF stmt.from[i].type = "statement"
                      THEN [stmt.from[i] EXCEPT !.statement = EmptySelect]
                      ELSE stmt.from[i]],
          !.where = WithoutSubSelects(stmt.where)]
  ELSE IF stmt.type = "with"
  THEN [stmt EXCEPT
          !.bind = [i \in 1..Len(stmt.bind) |->
                      [stmt.bind[i] EXCEPT !.statement = EmptySelect]],
          !.in = WithoutNested(stmt.in)]
  ELSE IF stmt.type \in {"union", "union all"}
  THEN [stmt EXCEPT !.left = WithoutNested(stmt.left),
                    !.right = WithoutNested(stmt.right)]
  ELSE IF stmt.type \in {"update", "delete"}
  THEN [stmt EXCEPT !.where = WithoutSubSelects(stmt.where)]
  ELSE stmt

\* what the call returns for the input with its nested statements emptied
ResultWithoutNested ==
  LET res == processStatements([s \in 1..Len(sql.ast) |-> WithoutNested(sql.ast[s])],
                               sql.text)
  IN IF schema.kind = "schema" THEN validateColumnsAgainstSchema(res, schema) ELSE res

\* C9 as amended: the tables and columns of a CTE body or of a FROM/WHERE
\* subquery are not merged into the enclosing Query Fact, whose tables,
\* columns, joins and whereConditions are the same whatever the nested
\* statements contain (each CTE and each aliased FROM subquery adds only
\* its alias to tables); the tables and selected columns of a CTE body are
\* kept in its nested Query Fact in ctes.
Thm_C9_NestedKeptApart ==
  Returned =>
    /\ result.tables = ResultWithoutNested.tables
    /\ result.columns = ResultWithoutNested.columns
    /\ result.joins = ResultWithoutNested.joins
    /\ result.whereConditions = ResultWithoutNested.whereConditions
    /\ (Len(sql.ast) = 1 /\ sql.ast[1].type = "with") =>
         /\ Len(result.ctes) = Len(sql.ast[1].bind)
         /\ \A i \in 1..Len(sql.ast[1].bind) :
              LET body == sql.ast[1].bind[i].statement
              IN body.type = "select" =>
                   /\ ExposedTables(body)
                        \subseteq {t.name : t \in SeqRange(result.ctes[i].tables)}
                   /\ ExposedColumns(body)
                        \subseteq {c.name : c \in SeqRange(result.ctes[i].columns)}

\* a WITH whose body reads a table that the enclosing tables list lacks
Wit_C9_BodyTableOnlyInCte ==
  /\ Returned
  /\ Len(sql.ast) = 1
  /\ sql.ast[1].type = "with"
  /\ \E i \in 1..Len(result.ctes) :
       \E t \in SeqRange(result.ctes[i].tables) :
         t.name \notin {x.name : x \in SeqRange(result.tables)}

\* ------------------------------------------------------------------------
\* C10: for a SELECT over a single table whose column references are
\* unqualified, parsed without a schema, each Column Fact's table is that
\* table's name.
\* ------------------------------------------------------------------------
Claim_C10_SingleTableInferred ==
  (SingleSelect /\ schema.kind = "undefined"
     /\ Len(sql.ast[1].from) = 1
     /\ sql.ast[1].from[1].type = "table"
     /\ \A r \in QueryRefs(sql.ast[1]) : r.table = UNDEF /\ r.name # "*") =>
    \A i \in 1..Len(result.columns) :
      result.columns[i].table = sql.ast[1].from[1].name.name

\* ------------------------------------------------------------------------
\* C11: for `WITH c AS (<select>) SELECT * FROM c` the top-level tables
\* list is exactly one Table Fact {name: c, alias: c}: a CTE read in the
\* main query's FROM is listed once.
\* ------------------------------------------------------------------------

\* the call was given one WITH statement
SingleWith == Returned /\ Len(sql.ast) = 1 /\ sql.ast[1].type = "with"

\* the main query is `SELECT * FROM <name>`
SelectStarFrom(main, name) ==
  /\ main.type = "select"
  /\ Len(main.from) = 1
  /\ main.from[1].type = "table"
  /\ main.from[1].name.name = name
  /\ main.from[1].name.alias = UNDEF
  /\ ~Present(main.from[1].join)
  /\ Len(main.columns) = 1
  /\ main.columns[1].expr.type = "ref"
  /\ main.columns[1].expr.name = "*"

Claim_C11_CteListedOnce ==
  (SingleWith
     /\ Len(sql.ast[1].bind) = 1
     /\ Present(sql.ast[1].bind[1].statement)
     /\ SelectStarFrom(sql.ast[1].in, sql.ast[1].bind[1].alias)) =>
    result.tables = << ParsedTable(sql.ast[1].bind[1].alias,
                                   sql.ast[1].bind[1].alias, UNDEF) >>

\* ------------------------------------------------------------------------
\* C12: a column referenced in the HAVING condition of a SELECT is recorded
\* as a Column Fact with isFilterColumn=true, as a WHERE column is.
\* ------------------------------------------------------------------------
Claim_C12_HavingColumnsAreFilters ==
  (SingleSelect /\ Present(sql.ast[1].having)) =>
    \A r \in RefsIn(sql.ast[1].having) :
      \E i \in 1..Len(result.columns) :
        /\ result.columns[i].name = r.name
        /\ result.columns[i].isFilterColumn

\* ------------------------------------------------------------------------
\* C13: a schema loaded in the page reaches the validation of the route
\* ------------------------------------------------------------------------

\* the number of Column Facts of a Query Fact judged invalid
InvalidColumns(q) == Cardinality({i \in 1..Len(q.columns) : q.columns[i].isValid = "false"})

\* C13: when the page sent a loaded schema with its query, the Query Fact
\* the route answers with is the one validated against that schema, so
\* the count of invalid columns the page computes from the answer is the
\* number of columns the schema does not have.
Claim_C13_RouteAppliesSchema ==
  (response # NoMessage /\ response.success /\ request.schema # NoSchema)
    => /\ response.data = parseSQLReturns(request.sql, request.schema)
       /\ invalidColumnCount(response.data, request.schema)
            = InvalidColumns(parseSQLReturns(request.sql, request.schema))

\* ------------------------------------------------------------------------
\* C18: the column flags of the Schema Model
\* ------------------------------------------------------------------------

\* parseDDL has returned a schema
SchemaParsed ==
  /\ Len(calls) = 1
  /\ calls[1].fn = "parseDDL"
  /\ calls[1].returned.success

\* the CREATE TABLE statements of the DDL, in order
CreatedTables == SelectSeq(calls[1].ddl.ast, LAMBDA st : st.type = "create table")

\* the constraint keywords written on a column definition
ConstraintTypes(def) == {def.constraints[j].type : j \in 1..Len(def.constraints)}

\* the lower-cased names listed by the table-level PRIMARY KEY constraints
TablePrimaryKey(stmt) ==
  UNION {{toLowerCase(stmt.constraints[j].columns[n].name) :
            n \in 1..Len(stmt.constraints[j].columns)} :
           j \in {x \in 1..Len(stmt.constraints) : stmt.constraints[x].type = "primary key"}}

\* the flags the claim gives the column of a definition
FlagsAsSpecified(stmt, def, c) ==
  /\ c.name = def.name.name
  /\ c.isPrimaryKey <=> \/ "primary key" \in ConstraintTypes(def)
                        \/ toLowerCase(def.name.name) \in TablePrimaryKey(stmt)
  /\ (c.nullable = FALSE) <=> ("not null" \in ConstraintTypes(def) \/ c.isPrimaryKey)
  /\ c.isForeignKey <=> "reference" \in ConstraintTypes(def)
  /\ c.isPrimaryKey => ~c.nullable

\* C18: for every column of every parsed table, isPrimaryKey holds exactly
\* when the column carries PRIMARY KEY or is named (in any letter case) by
\* a table-level PRIMARY KEY, nullable is false exactly when it carries
\* NOT NULL or is a primary key, isForeignKey holds exactly when it
\* carries REFERENCES, and a primary key is never nullable.
Thm_C18_ColumnFlags ==
  SchemaParsed =>
    /\ Len(calls[1].returned.schema.tableDetails) = Len(CreatedTables)
    /\ \A k \in 1..Len(CreatedTables) :
         /\ Len(calls[1].returned.schema.tableDetails[k].columns) = Len(CreatedTables[k].columns)
         /\ \A i \in 1..Len(CreatedTables[k].columns) :
              FlagsAsSpecified(CreatedTables[k], CreatedTables[k].columns[i],
                               calls[1].returned.schema.tableDetails[k].columns[i])

\* a column named ID made a non-nullable primary key by a table-level
\* PRIMARY KEY (id), next to a nullable column with REFERENCES
Wit_C18_TableLevelKeyAnyCase ==
  /\ SchemaParsed
  /\ Len(CreatedTables) = 1
  /\ CreatedTables[1].columns[1].name.name = "ID"
  /\ CreatedTables[1].columns[1].constraints = <<>>
  /\ "id" \in TablePrimaryKey(CreatedTables[1])
  /\ calls[1].returned.schema.tableDetails[1].columns[1].isPrimaryKey
  /\ ~calls[1].returned.schema.tableDetails[1].columns[1].nullable
  /\ calls[1].returned.schema.tableDetails[1].columns[2].isForeignKey
  /\ calls[1].returned.schema.tableDetails[1].columns[2].nullable

\* ------------------------------------------------------------------------
\* C14: parseSQL keeps nothing between calls
\* ------------------------------------------------------------------------

\* the calls of parseSQL in the sequence of calls
ParseCalls == {i \in 1..Len(calls) : calls[i].fn = "parseSQL"}

EmptyText(c) == c.sql.text \in {"", " ", "   "}

\* the parser rejected the text of a call, or found no statement in it
NothingParsed(c) == ~EmptyText(c) /\ (~c.sql.ok \/ Len(c.sql.ast) = 0)

\* what the parser, or parseSQL for want of statements, said
ParseMessage(c) == IF ~c.sql.ok THEN c.sql.message ELSE "No valid SQL statements found"

\* C15: a call of parseSQL on empty or white-space text throws 'SQL query
\* cannot be empty' and reaches neither the parser nor the validator; a
\* call whose text the parser rejects, or in which it finds no statement,
\* throws 'Failed to parse SQL: <message>', returns no Query Fact and
\* reaches neither the extraction nor the validator.
Thm_C15_EmptyAndUnparsable ==
  \A i \in ParseCalls :
    /\ EmptyText(calls[i]) =>
         /\ calls[i].threw = "SQL query cannot be empty"
         /\ calls[i].returned = NoResult
         /\ calls[i].invoked = {}
    /\ NothingParsed(calls[i]) =>
         /\ calls[i].threw = "Failed to parse SQL: " \o ParseMessage(calls[i])
         /\ calls[i].returned = NoResult
         /\ calls[i].invoked = {"parse"}

\* white-space text, malformed text and text without statements, each
\* parsed with a schema and each failing its own way
Wit_C15_ThreeFailures ==
  /\ Len(calls) = 3
  /\ \A i \in 1..3 : calls[i].fn = "parseSQL" /\ calls[i].schema # NoSchema
  /\ calls[1].sql.text = "   " /\ calls[1].threw = "SQL query cannot be empty"
  /\ calls[2].sql.text = "<malformed>"
  /\ calls[2].threw = "Failed to parse SQL: Syntax error at line 1 col 8"
  /\ calls[3].sql.text = "<comment only>"
  /\ calls[3].threw = "Failed to parse SQL: No valid SQL statements found"

\* ------------------------------------------------------------------------
\* C16: which JOIN clauses become Join Facts
\* ------------------------------------------------------------------------

\* a FROM table item joined ON one equality of two column references
EquiJoined(item) ==
  /\ item.type = "table"
  /\ Present(item.join)
  /\ Present(item.join.on)
  /\ item.join.on.type = "binary"
  /\ item.join.on.op = "="
  /\ item.join.on.left.type = "ref"
  /\ item.join.on.right.type = "ref"

\* the type tag of a JOIN keyword
KeywordType(keyword) ==
  CASE keyword \in {"LEFT JOIN", "LEFT OUTER JOIN"} -> "LEFT"
    [] keyword \in {"RIGHT JOIN", "RIGHT OUTER JOIN"} -> "RIGHT"
    [] keyword \in {"FULL JOIN", "FULL OUTER JOIN"} -> "FULL"
    [] keyword = "CROSS JOIN" -> "CROSS"
    [] OTHER -> "INNER"

\* a FROM item that is listed in tables: a table, or a subquery with an alias
Listed(item) == item.type = "table" \/ Truthy(item.alias)

ListedName(item) == IF item.type = "table" THEN item.name.name ELSE item.alias

\* C16: the joins of a SELECT are, in FROM order, one Join Fact for each
\* FROM table item joined ON a single equality of two column references,
\* tagged by the JOIN keyword and naming the two columns; every other
\* JOIN clause gives no Join Fact, and each FROM table is listed in tables
\* whatever its JOIN clause is.
Thm_C16_JoinFactsOfEquiJoins ==
  SingleSelect =>
    LET joined == SelectSeq(sql.ast[1].from, EquiJoined)
        listed == SelectSeq(sql.ast[1].from, Listed)
    IN /\ Len(result.joins) = Len(joined)
       /\ \A k \in 1..Len(joined) :
            /\ result.joins[k].type = KeywordType(joined[k].join.type)
            /\ result.joins[k].leftColumn = joined[k].join.on.left.name
            /\ result.joins[k].rightColumn = joined[k].join.on.right.name
       /\ Len(result.tables) = Len(listed)
       /\ \A k \in 1..Len(listed) : result.tables[k].name = ListedName(listed[k])

\* a chain of two joins, RIGHT JOIN on an equality and FULL JOIN on a
\* comparison: three tables and the one RIGHT Join Fact
Wit_C16_OneOfTwoJoinsIsAFact ==
  /\ SingleSelect
  /\ Len(sql.ast[1].from) = 3
  /\ sql.ast[1].from[2].join.type = "RIGHT JOIN"
  /\ EquiJoined(sql.ast[1].from[2])
  /\ sql.ast[1].from[3].join.type = "FULL JOIN"
  /\ Present(sql.ast[1].from[3].join.on)
  /\ sql.ast[1].from[3].join.on.op = "<"
  /\ Len(result.tables) = 3
  /\ Len(result.joins) = 1
  /\ result.joins[1].type = "RIGHT"

\* ------------------------------------------------------------------------
\* C17: the modified columns of INSERT, UPDATE, DELETE and SELECT
\* ------------------------------------------------------------------------

\* parseSQL has returned the Query Fact of one statement of this kind
SingleStatement(kind) == Returned /\ Len(sql.ast) = 1 /\ sql.ast[1].type = kind

\* the Column Facts with the modified role
ModifiedFacts == {i \in 1..Len(result.columns) : result.columns[i].isModified}

\* C17: the Column Facts of an INSERT are one per distinct column of its
\* column list, on the target table, modified and neither selected, join
\* nor filter columns; each SET target of an UPDATE has a modified Column
\* Fact on the target table; a DELETE or a SELECT has no modified Column
\* Fact.
Thm_C17_ModifiedColumns ==
  /\ SingleStatement("insert") =>
       /\ Len(result.columns) = Cardinality(SeqRange(sql.ast[1].columns))
       /\ {<<c.table, c.name>> : c \in SeqRange(result.columns)}
            = {<<sql.ast[1].into.name, n>> : n \in SeqRange(sql.ast[1].columns)}
       /\ \A c \in SeqRange(result.columns) :
            c.isModified /\ ~c.isSelected /\ ~c.isJoinColumn /\ ~c.isFilterColumn
  /\ SingleStatement("update") =>
       \A k \in 1..Len(sql.ast[1].sets) :
         \E i \in ModifiedFacts :
           /\ result.columns[i].table = sql.ast[1].table.name
           /\ result.columns[i].name = sql.ast[1].sets[k].column
  /\ (SingleStatement("delete") \/ SingleStatement("select")) => ModifiedFacts = {}

\* an INSERT naming the same column twice: one modified Column Fact
Wit_C17_InsertColumnNamedTwice ==
  /\ SingleStatement("insert")
  /\ sql.ast[1].columns = <<"name", "name">>
  /\ Len(result.columns) = 1
  /\ result.columns[1].isModified
  /\ result.columns[1].table = "users"

\* ------------------------------------------------------------------------
\* C19: the Query Fact of a WITH statement
\* ------------------------------------------------------------------------

\* the Table Facts the bindings of a WITH register, in binding order
AliasTables(bind) ==
  [k \in 1..Len(bind) |-> ParsedTable(bind[k].alias, bind[k].alias, UNDEF)]

\* C19: the Query Fact of a WITH statement has type CTE; its ctes are the
\* Query Facts of the bodies of its bindings, in binding order, each
\* extracted from its body alone; its tables start with one Table Fact
\* {name: alias, alias: alias} per binding, in binding order, followed by
\* the tables of the main SELECT.
Thm_C19_CteFacts ==
  SingleWith =>
    /\ result.type = "CTE"
    /\ Len(result.ctes) = Len(sql.ast[1].bind)
    /\ \A k \in 1..Len(sql.ast[1].bind) :
         result.ctes[k] = processStatements(<<sql.ast[1].bind[k].statement>>, sql.text)
    /\ result.tables
         = AliasTables(sql.ast[1].bind) \o processStatements(<<sql.ast[1].in>>, sql.text).tables

\* two bindings c and d whose bodies read different tables, and a main
\* SELECT that joins c with orders
Wit_C19_TwoBindingsThenMain ==
  /\ SingleWith
  /\ Len(sql.ast[1].bind) = 2
  /\ Len(result.ctes) = 2
  /\ result.ctes[1].tables # result.ctes[2].tables
  /\ Len(result.ctes[1].joins) = 1
  /\ Len(result.tables) = 4
  /\ result.tables[1].name = "c" /\ result.tables[1].alias = "c"
  /\ result.tables[2].name = "d" /\ result.tables[2].alias = "d"
  /\ result.tables[4].name = "orders"

\* ------------------------------------------------------------------------
\* C20: the Query Fact of a UNION
\* ------------------------------------------------------------------------

\* parseSQL has returned the Query Fact of one UNION or UNION ALL
SingleUnion == Returned /\ Len(sql.ast) = 1 /\ sql.ast[1].type \in {"union", "union all"}

\* the tables of the branches, each extracted alone, one after the other
RECURSIVE BranchTables(_, _)
BranchTables(branches, k) ==
  IF k > Len(branches) THEN <<>>
  ELSE processStatements(<<branches[k]>>, sql.text).tables \o BranchTables(branches, k + 1)

\* C20: the Query Fact of a UNION or UNION ALL tree is one Query Fact of
\* type SELECT whose tables are the tables of all its SELECT branches, in
\* branch order from left to right, and whose ctes are empty.
Thm_C20_UnionIsFlat ==
  SingleUnion =>
    /\ result.type = "SELECT"
    /\ result.ctes = <<>>
    /\ result.tables = BranchTables(SelectBranches(sql.ast[1]), 1)

\* a UNION ALL whose right side is a UNION: three branches, the first
\* over orders and users, the second over users
Wit_C20_NestedUnionInBranchOrder ==
  /\ SingleUnion
  /\ sql.ast[1].right.type = "union"
  /\ Len(SelectBranches(sql.ast[1])) = 3
  /\ Len(result.tables) = 5
  /\ result.tables[1].name = "orders"
  /\ result.tables[2].name = "users"
  /\ result.tables[3].name = "users"
  /\ result.tables[4].name = "orders"

\* ------------------------------------------------------------------------
\* C21: the Query Fact of a FROM subquery
\* ------------------------------------------------------------------------

\* parseSQL has returned the Query Fact of one SELECT that has a FROM
\* clause and a SELECT list
PlainSelect == SingleSelect /\ Len(sql.ast[1].from) > 0 /\ Len(sql.ast[1].columns) > 0

\* the FROM items of a SELECT that are sub-SELECTs, in FROM order
FromSubqueries(stmt) == SelectSeq(stmt.from, LAMBDA item : item.type = "statement")

\* C21: for each FROM item that is a parenthesised sub-SELECT, the Query
\* Fact pushed to subqueries is the extraction of that inner SELECT, with
\* the inner statement's tables, columns, joins and whereConditions.
Claim_C21_FromSubqueryExtracted ==
  (PlainSelect /\ SubSelectsIn(sql.ast[1].where) = {}) =>
    /\ Len(result.subqueries) = Len(FromSubqueries(sql.ast[1]))
    /\ \A k \in 1..Len(FromSubqueries(sql.ast[1])) :
         LET inner == processStatements(<<FromSubqueries(sql.ast[1])[k].statement>>, sql.text)
         IN /\ result.subqueries[k].tables = inner.tables
            /\ {ColumnKey(c) : c \in SeqRange(result.subqueries[k].columns)}
                 = {ColumnKey(c) : c \in SeqRange(inner.columns)}
            /\ result.subqueries[k].joins = inner.joins
            /\ result.subqueries[k].whereConditions = inner.whereConditions

\* ------------------------------------------------------------------------
\* C22: the Query Fact of a WHERE subquery
\* ------------------------------------------------------------------------

\* C22: each sub-SELECT inside the WHERE predicate of a SELECT is recorded
\* as a nested Query Fact, listing the sub-SELECT's tables, in the
\* subqueries of the enclosing Query Fact.
Claim_C22_WhereSubqueryRecorded ==
  PlainSelect =>
    \A n \in SubSelectsIn(sql.ast[1].where) :
      \E k \in 1..Len(result.subqueries) :
        result.subqueries[k].tables = processStatements(<<n>>, sql.text).tables

\* ------------------------------------------------------------------------
\* C23: FROM subqueries of every kind of statement
\* ------------------------------------------------------------------------

\* the SELECTs whose FROM is walked for the top-level lists
WalkedSelects(stmt) ==
  IF stmt.type = "with" THEN SelectBranches(stmt.in) ELSE SelectBranches(stmt)

\* the number of FROM subqueries of a sequence of SELECTs
RECURSIVE CountFromSubqueries(_, _)
CountFromSubqueries(selects, k) ==
  IF k > Len(selects) THEN 0
  ELSE Len(FromSubqueries(selects[k])) + CountFromSubqueries(selects, k + 1)

\* C23: whether it stands in a plain SELECT, in a branch of a UNION or in
\* the main SELECT after WITH, every FROM subquery has its Query Fact in
\* the subqueries of the returned Query Fact and its alias in tables.
Claim_C23_FromSubqueriesKept ==
  (Returned /\ Len(sql.ast) = 1 /\ sql.ast[1].type \in {"select", "union", "union all", "with"}) =>
    /\ Len(result.subqueries) >= CountFromSubqueries(WalkedSelects(sql.ast[1]), 1)
    /\ \A k \in 1..Len(WalkedSelects(sql.ast[1])) :
         \A item \in SeqRange(FromSubqueries(WalkedSelects(sql.ast[1])[k])) :
           Truthy(item.alias) => item.alias \in {t.name : t \in SeqRange(result.tables)}

\* ------------------------------------------------------------------------
\* C24: one condition string per leaf comparison
\* ------------------------------------------------------------------------

\* the leaf comparisons of a WHERE tree, from left to right
RECURSIVE LeafComparisons(_)
LeafComparisons(e) ==
  IF ~Present(e) THEN <<>>
  ELSE IF e.type = "binary"
       THEN IF e.op \in {"AND", "OR"}
            THEN LeafComparisons(e.left) \o LeafComparisons(e.right)
            ELSE <<e>>
  ELSE IF e.type = "unary" THEN LeafComparisons(e.operand)
  ELSE <<>>

\* C24: whereConditions has one string per leaf comparison of the WHERE
\* tree, in left-to-right order, whatever the kinds of the operands are
\* (column, number, string, boolean, function call): WHERE active = true
\* gives one condition.
Claim_C24_OneConditionPerComparison ==
  (PlainSelect /\ SubSelectsIn(sql.ast[1].where) = {}) =>
    Len(result.whereConditions) = Len(LeafComparisons(sql.ast[1].where))

\* ------------------------------------------------------------------------
\* C25: the role of the clause reaches nested expressions
\* ------------------------------------------------------------------------

\* the column references of an operand reached through a function call
\* or an arithmetic expression
RECURSIVE NestedOperandRefs(_)
NestedOperandRefs(e) ==
  IF ~Present(e) THEN {}
  ELSE IF e.type \in {"call", "binary"} THEN RefsIn(e)
  ELSE IF e.type = "cast" THEN NestedOperandRefs(e.operand)
  ELSE {}

\* the same for the operands of the comparisons of a WHERE tree
RECURSIVE NestedWhereRefs(_)
NestedWhereRefs(e) ==
  IF ~Present(e) THEN {}
  ELSE IF e.type = "binary"
       THEN IF e.op \in {"AND", "OR"}
            THEN NestedWhereRefs(e.left) \cup NestedWhereRefs(e.right)
            ELSE NestedOperandRefs(e.left) \cup NestedOperandRefs(e.right)
  ELSE IF e.type = "unary" THEN NestedWhereRefs(e.operand)
  ELSE IF e.type = "call" THEN RefsIn(e)
  ELSE {}

NestedFilterRefs(stmt) ==
  NestedWhereRefs(stmt.where)
  \cup UNION {NestedOperandRefs(stmt.groupBy[i]) : i \in 1..Len(stmt.groupBy)}
  \cup UNION {NestedOperandRefs(stmt.orderBy[i].by) : i \in 1..Len(stmt.orderBy)}

\* C25: a column reached through function-call arguments or through an
\* arithmetic expression inside WHERE, GROUP BY or ORDER BY has a Column
\* Fact with isFilterColumn set, and with isSelected set only if the
\* column also occurs in the SELECT list.
Claim_C25_RoleThreadedThroughWalk ==
  (PlainSelect /\ schema.kind = "undefined") =>
    \A key \in KeysOf(NestedFilterRefs(sql.ast[1]), result.tables) :
      \E i \in 1..Len(result.columns) :
        /\ ColumnKey(result.columns[i]) = key
        /\ result.columns[i].isFilterColumn
        /\ result.columns[i].isSelected
             => key \in KeysOf(SelectListRefs(sql.ast[1]), result.tables)

\* ------------------------------------------------------------------------
\* C26: validation of a Column Fact without a table qualifier
\* ------------------------------------------------------------------------

\* the distinct tables referenced by the query that have, in the schema, a
\* column of this name
TablesHaving(name) ==
  {toLowerCase(t.name) : t \in {x \in SeqRange(extracted.tables) :
      /\ toLowerCase(x.name) \in DOMAIN schema.tables
      /\ toLowerCase(name) \in DOMAIN schema.tables[toLowerCase(x.name)]}}

\* the outcome the claim gives an unqualified Column Fact: c is the fact
\* after validation
ValidatedAsSpecified(c) ==
  IF Cardinality(TablesHaving(c.name)) = 1
  THEN /\ toLowerCase(c.table) \in TablesHaving(c.name)
       /\ c.isValid = "true"
       /\ c.dataType = schema.tables[toLowerCase(c.table)][toLowerCase(c.name)]
  ELSE IF TablesHaving(c.name) = {}
  THEN c.isValid = "false" /\ c.dataType = UNDEF
  ELSE c.isValid = "true" /\ c.dataType = UNDEF

\* C26: a Column Fact without a table qualifier adopts the one distinct
\* referenced table that has its column, with isValid=true and the
\* column's dataType, also when that table is referenced several times;
\* it is invalid without dataType when no referenced table has the
\* column, and valid without dataType when several different tables have it.
Claim_C26_UnqualifiedColumnValidation ==
  ((SingleSelect \/ SingleUnion) /\ Validated) =>
    \A i \in 1..Len(extracted.columns) :
      ~Truthy(extracted.columns[i].table) => ValidatedAsSpecified(result.columns[i])

\* ------------------------------------------------------------------------
\* C27: what validation leaves alone
\* ------------------------------------------------------------------------

\* the fields of a Column Fact that validation never writes
SameButAnnotations(before, after) ==
  /\ after.name = before.name
  /\ after.alias = before.alias
  /\ after.isSelected = before.isSelected
  /\ after.isJoinColumn = before.isJoinColumn
  /\ after.isFilterColumn = before.isFilterColumn
  /\ after.isModified = before.isModified
  /\ after.table # before.table =>
       ~Truthy(before.table) /\ Cardinality(TablesHaving(before.name)) = 1

\* the Column Facts of the Query Facts nested in a Query Fact
RECURSIVE NestedColumns(_)
NestedColumns(q) ==
  UNION {SeqRange(q.ctes[k].columns) \cup NestedColumns(q.ctes[k]) : k \in 1..Len(q.ctes)}
  \cup UNION {SeqRange(q.subqueries[k].columns) \cup NestedColumns(q.subqueries[k]) :
                k \in 1..Len(q.subqueries)}

\* C27: the validated Query Fact differs from the extracted one only in
\* isValid, dataType and, for an unqualified column of exactly one
\* referenced table, table of its top-level Column Facts: tables, joins,
\* whereConditions, type, rawSql, ctes and subqueries are the same, the
\* columns are as many, in the same order, with the same name, alias and
\* role flags, the Column Facts of nested Query Facts carry no isValid and
\* no dataType, and the schema is the one that was passed.
Thm_C27_ValidationFrame ==
  Validated =>
    /\ result.tables = extracted.tables
    /\ result.joins = extracted.joins
    /\ result.whereConditions = extracted.whereConditions
    /\ result.type = extracted.type
    /\ result.rawSql = extracted.rawSql
    /\ result.ctes = extracted.ctes
    /\ result.subqueries = extracted.subqueries
    /\ Len(result.columns) = Len(extracted.columns)
    /\ \A i \in 1..Len(extracted.columns) :
         SameButAnnotations(extracted.columns[i], result.columns[i])
    /\ \A c \in NestedColumns(result) : c.isValid = UNDEF /\ c.dataType = UNDEF
    /\ calls[1].schema = schema

\* a validated WITH statement: a top-level column judged invalid, one
\* that adopted its table, and a CTE body whose columns stay unannotated
Wit_C27_AnnotatedOnlyAtTopLevel ==
  /\ Validated
  /\ \E i \in 1..Len(result.columns) : result.columns[i].isValid = "false"
  /\ \E i \in 1..Len(result.columns) :
       /\ ~Truthy(extracted.columns[i].table)
       /\ result.columns[i].table = "orders"
       /\ result.columns[i].dataType # UNDEF
  /\ Len(result.ctes) > 0
  /\ Len(result.ctes[1].columns) > 0

\* ------------------------------------------------------------------------
\* C28: the join columns are the endpoints of the Join Facts
\* ------------------------------------------------------------------------

\* the (table, column) endpoints of the Join Facts of a Query Fact
JoinEndpoints(q) ==
  {<<q.joins[k].leftTable, q.joins[k].leftColumn>> : k \in 1..Len(q.joins)}
  \cup {<<q.joins[k].rightTable, q.joins[k].rightColumn>> : k \in 1..Len(q.joins)}

\* C28: without a schema, a Column Fact of the returned Query Fact has
\* isJoinColumn set exactly when its (table, name), an unset table
\* counting as '', is the left or the right endpoint of one of the Join
\* Facts, also when the alias of one table is the name of another.
Claim_C28_JoinColumnsAreEndpoints ==
  (Returned /\ schema.kind = "undefined") =>
    \A i \in 1..Len(result.columns) :
      result.columns[i].isJoinColumn <=> ColumnKey(result.columns[i]) \in JoinEndpoints(result)

\* ------------------------------------------------------------------------
\* C29: the edges of the diagram join nodes of the diagram
\* ------------------------------------------------------------------------

\* the ids of the nodes of a diagram
NodeIds(layout) == {layout.nodes[k].id : k \in 1..Len(layout.nodes)}

\* C29: in the diagram built from a Query Fact returned by parseSQL, the
\* source and the target of every edge are ids of nodes of that diagram,
\* also when the joined tables have aliases.
Claim_C29_EdgesJoinNodes ==
  Returned =>
    \A k \in 1..Len(generateDiagramLayout(result).edges) :
      /\ generateDiagramLayout(result).edges[k].source \in NodeIds(generateDiagramLayout(result))
      /\ generateDiagramLayout(result).edges[k].target \in NodeIds(generateDiagramLayout(result))

\* ------------------------------------------------------------------------
\* C30: several top-level statements
\* ------------------------------------------------------------------------

\* the statement kinds processStatements recognises
Recognised(stmt) ==
  stmt.type \in {"select", "insert", "update", "delete", "with", "union", "union all"}

\* the Query Fact of each statement of the text, extracted alone
PartsOf(statements) ==
  [k \in 1..Len(statements) |-> processStatements(<<statements[k]>>, sql.text)]

RECURSIVE JoinsOfAll(_, _)
JoinsOfAll(facts, i) ==
  IF i > Len(facts) THEN <<>> ELSE facts[i].joins \o JoinsOfAll(facts, i + 1)

RECURSIVE ConditionsOfAll(_, _)
ConditionsOfAll(facts, i) ==
  IF i > Len(facts) THEN <<>> ELSE facts[i].whereConditions \o ConditionsOfAll(facts, i + 1)

\* a Column Fact as its identity and its four roles
KeyAndRoles(c) ==
  <<ColumnKey(c), c.isSelected, c.isJoinColumn, c.isFilterColumn, c.isModified>>

\* the type of the last recognised statement, SELECT if there is none
LastType(statements) ==
  IF \A k \in 1..Len(statements) : ~Recognised(statements[k]) THEN "SELECT"
  ELSE PartsOf(statements)[CHOOSE k \in 1..Len(statements) :
                             /\ Recognised(statements[k])
                             /\ \A j \in (k + 1)..Len(statements) : ~Recognised(statements[j])].type

\* parseSQL has returned the Query Fact of a text of several statements
SeveralStatements == Returned /\ schema.kind = "undefined" /\ Len(sql.ast) > 1

\* C30: for a text of several statements parseSQL returns one Query Fact
\* whose tables, joins and whereConditions are those of the recognised
\* statements, one statement after the other, whose columns are their
\* columns deduplicated across the statements, and whose type is the type
\* of the last recognised statement; a statement of another kind adds
\* nothing, and with no recognised statement the Query Fact has type
\* SELECT and empty lists.
Claim_C30_StatementsAccumulate ==
  SeveralStatements =>
    /\ result.tables = tablesOfAll(PartsOf(sql.ast), 1)
    /\ result.joins = JoinsOfAll(PartsOf(sql.ast), 1)
    /\ result.whereConditions = ConditionsOfAll(PartsOf(sql.ast), 1)
    /\ {KeyAndRoles(c) : c \in SeqRange(result.columns)}
         = {KeyAndRoles(c) :
              c \in SeqRange(deduplicateColumns(columnsOfAll(PartsOf(sql.ast), 1)))}
    /\ Cardinality({ColumnKey(c) : c \in SeqRange(result.columns)}) = Len(result.columns)
    /\ result.type = LastType(sql.ast)

====
